---- MODULE Spec2Model ----
(***************************************************************************)
(* Polyphonic synthesizer (Synth) and its sequencer (MusicPlayer).         *)
(*                                                                         *)
(* Two execution contexts share the Synth object without locking:          *)
(*   - the sample-timer interrupt, which runs Synth::updateSample to       *)
(*     completion (action Tick);                                           *)
(*   - background code, which calls the public methods.  Every source      *)
(*     statement of a background call is one step (variable pc), so the    *)
(*     interrupt can fire between any two statements.                      *)
(* The Synth object is a global (main.cpp:33): fields the constructor does *)
(* not set are zero-initialised.                                           *)
(*                                                                         *)
(* Unsigned 32-bit fields whose values stay below 2^31 are integers; the   *)
(* phase accumulator, which wraps modulo 2^32, is a pair <<hi16, lo16>>.   *)
(*                                                                         *)
(* The second half of updateSample (mixer, echo unit, output stage) reads  *)
(* the voices and never writes them.  The specifications about the voices  *)
(* and the sequencer leave it unobserved (out = NoOut); the specifications *)
(* about the output start from InitOut and carry it through every Tick.    *)
(*                                                                         *)
(* The Room Bus framing code (roomserial.cpp) shares no state with the     *)
(* Synth: its encoder and parser act on the variable bus alone, which is   *)
(* NoBus in the specifications of the Synth.                               *)
(***************************************************************************)
EXTENDS Integers, Sequences, FiniteSets, TLC

VARIABLES
    synth,   \* the Synth object: voices, waveform, envelope, presetEchoEnabled,
             \* echo, sampleRate, musicPlayer (attached or not)
    mp,      \* the MusicPlayer object
    pc,      \* background code: the statement about to execute, or "idle"
    arg,     \* background code: arguments of the call in progress
    loc,     \* background code: locals of the call in progress
    calls,   \* background calls still to be issued
    out,     \* the echo unit and the output stage of the Synth: delay buffer and
             \* write cursor, the statics pwmActive and smoothed, the LEDC pins,
             \* and the locals of the last updateSample
    bus,     \* the Room Bus: the frame encoded last, the bytes on the line, the
             \* parser context, the caller's *out and parserFeed's return value
    hist     \* history of past steps, for the properties only

vars == <<synth, mp, pc, arg, loc, calls, out, bus, hist>>

(***************************************************************************)
(* Program constants                                                       *)
(***************************************************************************)
NUM_CHANNELS == 4

U16 == 256 * 256

MaxLevel == 255 * U16            \* u32 maxLevel = 255 << 16

Channels == 0 .. (NUM_CHANNELS - 1)

\* #define MAX_DELAY_BUFFER_SIZE 6000
MAX_DELAY_BUFFER_SIZE == 6000

\* Synth::init: begin(40000)
InitSampleRate == 40000

\* synth.begin(20000) of the application
RealSampleRate == 20000

Waveforms == {"WAVE_SINE", "WAVE_SQUARE", "WAVE_TRIANGLE", "WAVE_SAWTOOTH", "WAVE_NOISE"}

EnvStates == {"IDLE", "ATTACK", "DECAY", "SUSTAIN", "RELEASE"}

SoundPresets == {"SOUND_PLUCK", "SOUND_FLUTE", "SOUND_ORGAN", "SOUND_PIANO",
                 "SOUND_PERCUSSION", "SOUND_BEEP", "SOUND_SYNTH_LEAD", "SOUND_DEFAULT"}

\* SOUND_PRESETS[preset] = {waveform, attack, decay, sustain, release}
SOUND_PRESETS ==
    [p \in SoundPresets |->
        CASE p = "SOUND_PLUCK"      -> <<"WAVE_TRIANGLE", 5, 80, 50, 120>>
          [] p = "SOUND_FLUTE"      -> <<"WAVE_SINE", 150, 200, 180, 300>>
          [] p = "SOUND_ORGAN"      -> <<"WAVE_SQUARE", 0, 0, 255, 50>>
          [] p = "SOUND_PIANO"      -> <<"WAVE_TRIANGLE", 10, 150, 120, 200>>
          [] p = "SOUND_PERCUSSION" -> <<"WAVE_NOISE", 1, 30, 0, 50>>
          [] p = "SOUND_BEEP"       -> <<"WAVE_SQUARE", 0, 5, 200, 10>>
          [] p = "SOUND_SYNTH_LEAD" -> <<"WAVE_SAWTOOTH", 20, 100, 150, 150>>
          [] p = "SOUND_DEFAULT"    -> <<"WAVE_TRIANGLE", 5, 120, 100, 180>>]

\* the switch of setSoundPreset: the presets that send to the echo bus
PresetEcho(p) == p \in {"SOUND_PLUCK", "SOUND_FLUTE", "SOUND_SYNTH_LEAD"}

(***************************************************************************)
(* Bounds of the model                                                     *)
(***************************************************************************)
\* begin(sampleRateHz) was called with this rate: one envelope phase then lasts
\* a handful of samples.
SampleRate == 20

\* number of background calls issued in one run of Spec, SpecSeq, SpecNote
MaxCalls == 3

MaxSeqCalls == 3

MaxNoteCalls == 5

\* SpecOsc: the frequencies 0 .. MaxFreq
MaxFreq == 45

\* SpecOut: background calls, and the invocations of the interrupt that follow
\* the start of the run and each note start
MaxOutCalls == 2

MaxOutTicks == 5

\* SpecWave: oscillator steps in one run
MaxWaveSteps == 256

\* SpecBus: frames sent, and bytes the line drops, alters or adds, in one run
MaxBusSends == 2

MaxBusFaults == 1

\* SpecSong: play calls, and the invocations of the interrupt counted in one run
MaxSongCalls == 2

MaxSongTicks == 80

\* number of play calls issued in one run of SpecOrder
MaxOrderCalls == 2

\* SpecOrder: the sample interrupt fires at most this often while it is counted
MaxOrderTicks == 4

\* number of notes started in one run of SpecRates
MaxRateCalls == 1

\* SpecPwm: output stages run in one run
MaxPwmSteps == 1

\* SpecPoly issues N + 1 playNote calls
MaxPolyCalls == NUM_CHANNELS + 1

(***************************************************************************)
(* Fixed-width arithmetic                                                  *)
(***************************************************************************)
\* A u32 subtraction a - b of two values below 2^24 wraps, when a < b, to a
\* value of at least 2^32 - 2^24.  WrapU32 stands for that value: it is above
\* every envelope level, and no reachable state of the program holds it.
WrapU32 == 64 * MaxLevel

SubU32(a, b) == IF a >= b THEN a - b ELSE WrapU32

\* (u32)(((uint64_t)freq << 32) / sr), as a pair <<high 16 bits, low 16 bits>>,
\* by long division in base 256: the quotient bits above 2^32 are cut by the cast.
PhaseIncrementOf(freq, sr) ==
    LET r0 == freq % sr
        b3 == (r0 * 256) \div sr
        r1 == (r0 * 256) % sr
        b2 == (r1 * 256) \div sr
        r2 == (r1 * 256) % sr
        b1 == (r2 * 256) \div sr
        r3 == (r2 * 256) % sr
        b0 == (r3 * 256) \div sr
    IN  <<b3 * 256 + b2, b1 * 256 + b0>>

\* the addition without the carry from the low half
AddPhaseNoCarry(a, b) == <<(a[1] + b[1]) % U16, (a[2] + b[2]) % U16>>

\* phaseAccumulator += phaseIncrement, modulo 2^32
AddPhase(a, b) ==
    LET lo == a[2] + b[2]
        hi == a[1] + b[1] + (lo \div U16)
    IN  <<hi % U16, lo % U16>>

\* What a build may make of an int product that does not fit an int (undefined
\* behaviour): "wraps", the product keeps its low 32 bits, read as a negative
\* int, and is divided as an int; "unsigned", the compiler takes the product
\* of two u16 for non-negative and divides the 32 bits as an unsigned value.
IntOverflows == {"wraps", "unsigned"}

\* (ms * sampleRate) / 1000 with u16 operands, in int arithmetic, stored in a
\* u32; o is the build's choice when the product exceeds INT_MAX.  A u32 of
\* 2^31 or more is written as its int reading (the value - 2^32).
MsToSamples(ms, sr, o) ==
    LET IntMax == (U16 \div 2 - 1) * U16 + (U16 - 1)          \* INT_MAX = 2^31 - 1
        \* (a * b) / 1000 and (a * b) % 1000 of the exact product, a and b up to 2^16
        q(a, b) == a * (b \div 1000) + (a * (b % 1000)) \div 1000
        r(a, b) == (a * (b % 1000)) % 1000
    IN  IF sr = 0 \/ ms <= IntMax \div sr THEN (ms * sr) \div 1000
        ELSE IF o = "unsigned" THEN q(ms, sr)
        \* -((2^32 - ms * sr) / 1000)
        ELSE -((q(U16, U16) - q(ms, sr)) - (IF r(ms, sr) > r(U16, U16) THEN 1 ELSE 0))

\* the largest u16 whose product with the power-on sample rate fits an int
IntLimitMs == ((U16 \div 2 - 1) * U16 + (U16 - 1)) \div InitSampleRate

\* a / b of u32 values, a below 2^31
DivU32(a, b) == IF b < 0 THEN 0 ELSE a \div b

\* if (n == 0) n = 1;
AtLeastOne(n) == IF n = 0 THEN 1 ELSE n

(***************************************************************************)
(* Construction                                                            *)
(***************************************************************************)
\* a Voice of the zero-initialised global object, after the constructor's loop
InitVoice ==
    [active |-> FALSE, enableEcho |-> FALSE, frequency |-> 0,
     phaseAccumulator |-> <<0, 0>>, phaseIncrement |-> <<0, 0>>,
     envState |-> "IDLE", envLevel |-> 0,
     attackRate |-> 0, decayRate |-> 0, releaseRate |-> 0,
     sustainLevelFixed |-> 0, samplesUntilRelease |-> 0,
     baseVolume |-> 0, waveform |-> "WAVE_SINE"]

\* the Synth after Synth::Synth and begin(sr)
InitSynth(sr) ==
    [voices |-> [i \in Channels |-> InitVoice],
     waveform |-> "WAVE_SINE",
     envelope |-> [attackMs |-> 10, decayMs |-> 50, sustainLevel |-> 200, releaseMs |-> 100],
     presetEchoEnabled |-> FALSE,
     echo |-> [globalEnabled |-> FALSE, delayMs |-> 300, feedback |-> 100, mix |-> 100],
     sampleRate |-> sr,
     musicPlayer |-> FALSE,
     intOverflow |-> "wraps"]       \* the build's way with an int product over INT_MAX

\* the MusicPlayer after MusicPlayer::MusicPlayer; currentMelody 0 is nullptr
InitPlayer ==
    [currentMelody |-> 0, melodyLength |-> 0, currentNoteIndex |-> 0,
     playing |-> FALSE, bpm |-> 120, samplesPerTick |-> 0, msPerTick |-> 0,
     tickCounter |-> 0, ticksUntilNextStep |-> 0]

(***************************************************************************)
(* Configuration methods of Synth                                          *)
(***************************************************************************)
\* a setWaveform that also retunes the voices (used to test C9)
SetWaveformLive(S, wave) ==
    [S EXCEPT !.waveform = wave,
              !.voices = [i \in Channels |-> [S.voices[i] EXCEPT !.waveform = wave]]]

SetWaveform(S, wave) == [S EXCEPT !.waveform = wave]

\* the four statements of setADSR, by source line
SetADSRStmt(l, S, a) ==
    CASE l = "sa183" -> [S EXCEPT !.envelope.attackMs = a.attack]
      [] l = "sa184" -> [S EXCEPT !.envelope.decayMs = a.decay]
      [] l = "sa185" -> [S EXCEPT !.envelope.sustainLevel =
                            IF a.sustain % 256 < 255 THEN a.sustain % 256 ELSE 255]
      [] l = "sa186" -> [S EXCEPT !.envelope.releaseMs = a.release]

SetADSR(S, a) ==
    SetADSRStmt("sa186", SetADSRStmt("sa185", SetADSRStmt("sa184", SetADSRStmt("sa183", S, a), a), a), a)

\* the four statements of setEcho, by source line
SetEchoStmt(l, S, a) ==
    CASE l = "se194" -> [S EXCEPT !.echo.globalEnabled = a.enabled]
      [] l = "se195" -> [S EXCEPT !.echo.delayMs = a.delayMs]
      [] l = "se196" -> [S EXCEPT !.echo.feedback = a.feedback]
      [] l = "se197" -> [S EXCEPT !.echo.mix = a.mix]

SetEcho(S, a) ==
    SetEchoStmt("se197", SetEchoStmt("se196", SetEchoStmt("se195", SetEchoStmt("se194", S, a), a), a), a)

\* the arguments setSoundPreset passes to setADSR
PresetADSR(p) ==
    [attack |-> SOUND_PRESETS[p][2], decay |-> SOUND_PRESETS[p][3],
     sustain |-> SOUND_PRESETS[p][4], release |-> SOUND_PRESETS[p][5]]

SetPresetEcho(S, p) == [S EXCEPT !.presetEchoEnabled = PresetEcho(p)]

\* setSoundPreset run without preemption (as the interrupt runs it)
SetSoundPreset(S, p) ==
    SetPresetEcho(SetADSR(SetWaveform(S, SOUND_PRESETS[p][1]), PresetADSR(p)), p)

(***************************************************************************)
(* Synth::playNote, voice selection (lines 276-303)                        *)
(***************************************************************************)
\* line 280: if (!voices[i].active)
FreeAt(vs, i) == ~vs[i].active

\* line 294: if (voices[i].envState == Voice::RELEASE)
ReleaseAt(vs, i) == vs[i].envState = "RELEASE"

\* first loop, from index i: lowest index with !active, or -1
RECURSIVE ScanFree(_, _)
ScanFree(vs, i) ==
    IF i >= NUM_CHANNELS THEN -1
    ELSE IF FreeAt(vs, i) THEN i
    ELSE ScanFree(vs, i + 1)

\* second loop, from index i: lowest index with envState == RELEASE, or -1
RECURSIVE ScanRelease(_, _)
ScanRelease(vs, i) ==
    IF i >= NUM_CHANNELS THEN -1
    ELSE IF ReleaseAt(vs, i) THEN i
    ELSE ScanRelease(vs, i + 1)

SelectVoice(vs) ==
    IF ScanFree(vs, 0) # -1 THEN ScanFree(vs, 0)
    ELSE IF ScanRelease(vs, 0) # -1 THEN ScanRelease(vs, 0)
    ELSE 0

\* The selection rule as the documentation states it: the lowest-index voice
\* with active = false; if every voice is active, the lowest-index voice in
\* Release; if there is none, voice 0.
LowestOf(I) == CHOOSE i \in I : \A j \in I : i <= j

RuleVoice(vs) ==
    LET free == {i \in Channels : ~vs[i].active}
        fading == {i \in Channels : vs[i].envState = "RELEASE"}
    IN  IF free # {} THEN LowestOf(free)
        ELSE IF fading # {} THEN LowestOf(fading)
        ELSE 0

(***************************************************************************)
(* Synth::playNote, the statements on the selected voice (lines 305-345).  *)
(* A statement is named by its source line.  v is voices[voiceIndex], t    *)
(* the local set last (attackSamples, decaySamples, releaseSamples), a the *)
(* arguments, S the Synth whose settings the statement reads.              *)
(***************************************************************************)
PlayNoteStmts ==
    <<"pn306", "pn307", "pn308", "pn309", "pn310", "pn311", "pn314", "pn317",
      "pn318", "pn319", "pn326", "pn329", "pn332", "pn335", "pn337", "pn342", "pn345">>

\* the voice after statement l
PlayNoteWrite(l, v, t, a, S) ==
    CASE l = "pn306" -> [v EXCEPT !.active = TRUE]
      [] l = "pn307" -> [v EXCEPT !.enableEcho = S.presetEchoEnabled]
      [] l = "pn308" -> [v EXCEPT !.frequency = a.freq]
      [] l = "pn309" -> [v EXCEPT !.baseVolume = a.vol]
      [] l = "pn310" -> [v EXCEPT !.waveform = S.waveform]
      [] l = "pn311" -> [v EXCEPT !.phaseAccumulator = <<0, 0>>]
      [] l = "pn314" -> [v EXCEPT !.phaseIncrement = PhaseIncrementOf(a.freq, S.sampleRate)]
      [] l = "pn317" -> [v EXCEPT !.envState = "ATTACK"]
      [] l = "pn318" -> [v EXCEPT !.envLevel = 0]
      [] l = "pn319" -> [v EXCEPT !.samplesUntilRelease = MsToSamples(a.dur, S.sampleRate, S.intOverflow)]
      [] l = "pn329" -> [v EXCEPT !.attackRate = DivU32(MaxLevel, t)]
      [] l = "pn335" -> [v EXCEPT !.sustainLevelFixed = S.envelope.sustainLevel * U16]
      [] l = "pn337" -> [v EXCEPT !.decayRate =
                            IF MaxLevel > v.sustainLevelFixed
                            THEN DivU32(MaxLevel - v.sustainLevelFixed, t)
                            ELSE 0]
      [] l = "pn345" -> [v EXCEPT !.releaseRate = DivU32(v.sustainLevelFixed, t)]
      [] OTHER -> v

\* the local after statement l
PlayNoteLocal(l, t, S) ==
    CASE l = "pn326" -> AtLeastOne(MsToSamples(S.envelope.attackMs, S.sampleRate, S.intOverflow))
      [] l = "pn332" -> AtLeastOne(MsToSamples(S.envelope.decayMs, S.sampleRate, S.intOverflow))
      [] l = "pn342" -> AtLeastOne(MsToSamples(S.envelope.releaseMs, S.sampleRate, S.intOverflow))
      [] OTHER -> t

\* the statement after l, "ret" after the last
PlayNoteNext(l) ==
    LET k == CHOOSE n \in 1 .. Len(PlayNoteStmts) : PlayNoteStmts[n] = l
    IN  IF k = Len(PlayNoteStmts) THEN "ret" ELSE PlayNoteStmts[k + 1]

\* statements l .. end on voice v, without preemption (the next statement,
\* the voice and the local are bound as values before the rest runs)
RECURSIVE PlayNoteFrom(_, _, _, _, _)
PlayNoteFrom(l, v, t, a, S) ==
    IF l = "ret" THEN v
    ELSE CHOOSE r \in {PlayNoteFrom(l1, v1, t1, a, S) :
                          l1 \in {PlayNoteNext(l)},
                          v1 \in {PlayNoteWrite(l, v, t, a, S)},
                          t1 \in {PlayNoteLocal(l, t, S)}} : TRUE

\* playNote run without preemption (as the interrupt runs it)
PlayNote(S, a) ==
    LET k == SelectVoice(S.voices)
    IN  [S EXCEPT !.voices[k] = PlayNoteFrom("pn306", S.voices[k], 0, a, S)]

(***************************************************************************)
(* Synth::stopNote and Synth::isPlaying                                    *)
(***************************************************************************)
\* the two statements of the loop body of stopNote, on voice i
StopNoteStmt(l, S, i) ==
    CASE l = "sn355" -> [S EXCEPT !.voices[i].active = FALSE]
      [] l = "sn356" -> [S EXCEPT !.voices[i].envState = "IDLE"]

IsPlaying(S) == \E i \in Channels : S.voices[i].active

(***************************************************************************)
(* Synth::updateSample, one voice (lines 397-462): oscillator phase and    *)
(* ADSR envelope                                                           *)
(***************************************************************************)
AttackStep(v) ==
    LET lvl == v.envLevel + v.attackRate
    IN  IF lvl >= MaxLevel
        THEN [v EXCEPT !.envLevel = MaxLevel, !.envState = "DECAY"]
        ELSE [v EXCEPT !.envLevel = lvl]

DecayStep(v) ==
    LET lvl == IF v.envLevel > v.sustainLevelFixed + v.decayRate
               THEN SubU32(v.envLevel, v.decayRate)
               ELSE v.sustainLevelFixed
    IN  IF lvl <= v.sustainLevelFixed
        THEN [v EXCEPT !.envLevel = v.sustainLevelFixed, !.envState = "SUSTAIN"]
        ELSE [v EXCEPT !.envLevel = lvl]

\* a Sustain that ends the note itself, without a Release
SustainStepSkipRelease(v) ==
    IF v.samplesUntilRelease # 0
    THEN [v EXCEPT !.samplesUntilRelease = @ - 1]
    ELSE [v EXCEPT !.envState = "IDLE", !.active = FALSE]

\* if (samplesUntilRelease > 0), of a u32
SustainStep(v) ==
    IF v.samplesUntilRelease # 0
    THEN [v EXCEPT !.samplesUntilRelease = @ - 1]
    ELSE [v EXCEPT !.envState = "RELEASE"]

\* a Release without the floor test (used to test C4)
ReleaseStepNoFloor(v) == [v EXCEPT !.envLevel = SubU32(v.envLevel, v.releaseRate)]

ReleaseStep(v) ==
    IF v.envLevel > v.releaseRate
    THEN [v EXCEPT !.envLevel = SubU32(v.envLevel, v.releaseRate)]
    ELSE [v EXCEPT !.envLevel = 0, !.active = FALSE, !.envState = "IDLE"]

IdleStep(v) == [v EXCEPT !.active = FALSE]

UpdateEnvelope(v) ==
    CASE v.envState = "ATTACK"  -> AttackStep(v)
      [] v.envState = "DECAY"   -> DecayStep(v)
      [] v.envState = "SUSTAIN" -> SustainStep(v)
      [] v.envState = "RELEASE" -> ReleaseStep(v)
      [] v.envState = "IDLE"    -> IdleStep(v)

UpdateVoice(v) ==
    IF ~v.active THEN v
    ELSE UpdateEnvelope([v EXCEPT !.phaseAccumulator = AddPhase(@, v.phaseIncrement)])

UpdateVoices(S) == [S EXCEPT !.voices = [i \in Channels |-> UpdateVoice(S.voices[i])]]

(***************************************************************************)
(* Oscillator output: SINE_TABLE and Synth::generateSample                 *)
(***************************************************************************)
SINE_TABLE ==
    << 128, 131, 134, 137, 140, 143, 146, 149, 152, 155, 158, 162, 165, 167, 170, 173,
       176, 179, 182, 185, 188, 190, 193, 196, 198, 201, 203, 206, 208, 211, 213, 215,
       218, 220, 222, 224, 226, 228, 230, 232, 234, 235, 237, 238, 240, 241, 243, 244,
       245, 246, 248, 249, 250, 250, 251, 252, 253, 253, 254, 254, 254, 255, 255, 255,
       255, 255, 255, 255, 254, 254, 254, 253, 253, 252, 251, 250, 250, 249, 248, 246,
       245, 244, 243, 241, 240, 238, 237, 235, 234, 232, 230, 228, 226, 224, 222, 220,
       218, 215, 213, 211, 208, 206, 203, 201, 198, 196, 193, 190, 188, 185, 182, 179,
       176, 173, 170, 167, 165, 162, 158, 155, 152, 149, 146, 143, 140, 137, 134, 131,
       128, 124, 121, 118, 115, 112, 109, 106, 103, 100, 97, 93, 90, 88, 85, 82,
       79, 76, 73, 70, 67, 65, 62, 59, 57, 54, 52, 49, 47, 44, 42, 40,
       37, 35, 33, 31, 29, 27, 25, 23, 21, 20, 18, 17, 15, 14, 12, 11,
       10, 9, 7, 6, 5, 5, 4, 3, 2, 2, 1, 1, 1, 0, 0, 0,
       0, 0, 0, 0, 1, 1, 1, 2, 2, 3, 4, 5, 5, 6, 7, 9,
       10, 11, 12, 14, 15, 17, 18, 20, 21, 23, 25, 27, 29, 31, 33, 35,
       37, 40, 42, 44, 47, 49, 52, 54, 57, 59, 62, 65, 67, 70, 73, 76,
       79, 82, 85, 88, 90, 93, 97, 100, 103, 106, 109, 112, 115, 118, 121, 124 >>

\* random(0, 256) of WAVE_NOISE: the values the model draws
NoiseBytes == {0, 128, 255}

\* generateSample with the falling half of the triangle starting at 256
GenerateSampleFold(phase, wave, r) ==
    CASE wave = "WAVE_SINE"     -> SINE_TABLE[phase + 1]
      [] wave = "WAVE_SQUARE"   -> IF phase < 128 THEN 255 ELSE 0
      [] wave = "WAVE_TRIANGLE" -> IF phase < 128 THEN phase * 2 ELSE ((256 - phase) * 2) % 256
      [] wave = "WAVE_SAWTOOTH" -> phase
      [] wave = "WAVE_NOISE"    -> r

\* generateSample(phase, wave); r is the value random() returns
GenerateSample(phase, wave, r) ==
    CASE wave = "WAVE_SINE"     -> SINE_TABLE[phase + 1]
      [] wave = "WAVE_SQUARE"   -> IF phase < 128 THEN 255 ELSE 0
      [] wave = "WAVE_TRIANGLE" -> IF phase < 128 THEN phase * 2 ELSE (255 - phase) * 2
      [] wave = "WAVE_SAWTOOTH" -> phase
      [] wave = "WAVE_NOISE"    -> r

\* u8 phase = v.phaseAccumulator >> 24
PhaseOf(v) == v.phaseAccumulator[1] \div 256

(***************************************************************************)
(* Synth::updateSample, lines 464-580: mixer, echo unit, output stage      *)
(***************************************************************************)
\* the clips to the signed 8-bit range
Clip8(x) == IF x > 127 THEN 127 ELSE IF x < -128 THEN -128 ELSE x

\* mixedSample / 2: C division truncates toward zero
HalfOf(x) == IF x >= 0 THEN x \div 2 ELSE -((-x) \div 2)

\* lines 467-478; v is the voice after its phase and envelope update.  The
\* right shift of a negative value rounds down, as \div does.
ProcessedSample(v, r) ==
    LET sampleSigned == GenerateSample(PhaseOf(v), v.waveform, r) - 128
        envAmp       == v.envLevel \div U16
    IN  (sampleSigned * envAmp * v.baseVolume) \div U16

RECURSIVE SumOver(_, _)
SumOver(f, I) ==
    IF I = {} THEN 0
    ELSE LET i == CHOOSE j \in I : TRUE IN f[i] + SumOver(f, I \ {i})

\* the voices the loop does not skip: active when the loop reaches them
MixedVoices(S0) == {i \in Channels : S0.voices[i].active}

\* the draws of random() in one invocation, one for each WAVE_NOISE voice mixed
NoiseDraws(S0) ==
    [{i \in MixedVoices(S0) : S0.voices[i].waveform = "WAVE_NOISE"} -> NoiseBytes]

\* the loop's sums: S0 the Synth when the loop starts, S1 after it
Mix(S0, S1, r) ==
    LET p == [i \in MixedVoices(S0) |->
                 ProcessedSample(S1.voices[i], IF i \in DOMAIN r THEN r[i] ELSE 128)]
    IN  [activeVoices   |-> Cardinality(MixedVoices(S0)),
         mixedSample    |-> SumOver(p, MixedVoices(S0)),
         echoSendSample |-> SumOver(p, {i \in MixedVoices(S0) : S0.voices[i].enableEcho})]

\* the delay buffer holds 128 in every cell not listed: a set of <<index, byte>>
ReadCell(buf, i) ==
    IF \E c \in buf : c[1] = i THEN (CHOOSE c \in buf : c[1] = i)[2] ELSE 128

WriteCell(buf, i, b) ==
    {c \in buf : c[1] # i} \cup (IF b = 128 THEN {} ELSE {<<i, b>>})

\* ((u32)echo.delayMs * sampleRate) / 1000, the product split to stay below 2^31
DelaySamplesOf(delayMs, sr) ==
    delayMs * (sr \div 1000) + (delayMs * (sr % 1000)) \div 1000

\* the clamps without the one to the buffer length
ClampDelayToOne(d, len) == AtLeastOne(d)

\* lines 496-500: the clamps
ClampDelay(d, len) == AtLeastOne(IF d > len THEN len ELSE d)

\* lines 502-504
ReadIndexOf(w, d, len) == IF w - d < 0 THEN w - d + len ELSE w - d

\* the echo unit, run whether enabled or not
EchoStageAlways(O, S, m) ==
    LET d         == ClampDelay(DelaySamplesOf(S.echo.delayMs, S.sampleRate),
                                O.delayBufferLen)
        readIndex == ReadIndexOf(O.delayWriteIndex, d, O.delayBufferLen)
        delayed   == ReadCell(O.delayBuffer, readIndex) - 128
        feedback  == Clip8(m.echoSendSample + (delayed * S.echo.feedback) \div 256)
    IN  [O EXCEPT !.delayBuffer = WriteCell(@, O.delayWriteIndex, feedback + 128),
                  !.delayWriteIndex = IF @ + 1 >= O.delayBufferLen THEN 0 ELSE @ + 1,
                  !.mixedSample = m.mixedSample + (delayed * S.echo.mix) \div 256,
                  !.echoRan = S.echo.globalEnabled, !.readIndex = readIndex]

\* lines 491-527: O the unit before, m the loop's sums
EchoStage(O, S, m) ==
    IF ~S.echo.globalEnabled
    THEN [O EXCEPT !.mixedSample = m.mixedSample, !.echoRan = FALSE]
    ELSE LET d         == ClampDelay(DelaySamplesOf(S.echo.delayMs, S.sampleRate),
                                     O.delayBufferLen)
             readIndex == ReadIndexOf(O.delayWriteIndex, d, O.delayBufferLen)
             delayed   == ReadCell(O.delayBuffer, readIndex) - 128
             feedback  == Clip8(m.echoSendSample + (delayed * S.echo.feedback) \div 256)
         IN  [O EXCEPT !.delayBuffer = WriteCell(@, O.delayWriteIndex, feedback + 128),
                       !.delayWriteIndex = IF @ + 1 >= O.delayBufferLen THEN 0 ELSE @ + 1,
                       !.mixedSample = m.mixedSample + (delayed * S.echo.mix) \div 256,
                       !.echoRan = TRUE, !.readIndex = readIndex]

\* the output stage with the cast to u8 alone, without the two clips
PwmStageNoClip(O, S, n) ==
    IF n > 0 \/ S.echo.globalEnabled
    THEN LET pwmVal == (HalfOf(O.mixedSample) + 128) % 256
             sm     == IF ~O.pwmActive THEN pwmVal ELSE (O.smoothed * 7 + pwmVal) \div 8
         IN  [O EXCEPT !.pwmActive = TRUE, !.attached = TRUE, !.low = FALSE,
                       !.pwmVal = pwmVal, !.smoothed = sm,
                       !.duty = <<sm, 255 - sm>>]
    ELSE [O EXCEPT !.pwmActive = FALSE,
                   !.attached = IF O.pwmActive THEN FALSE ELSE @,
                   !.low = TRUE, !.pwmVal = -1]

\* the output stage with the filter applied in every output tick
PwmStageNoSeed(O, S, n) ==
    IF n > 0 \/ S.echo.globalEnabled
    THEN LET pwmVal == Clip8(HalfOf(O.mixedSample)) + 128
             sm     == (O.smoothed * 7 + pwmVal) \div 8
         IN  [O EXCEPT !.pwmActive = TRUE, !.attached = TRUE, !.low = FALSE,
                       !.pwmVal = pwmVal, !.smoothed = sm,
                       !.duty = <<sm, 255 - sm>>]
    ELSE [O EXCEPT !.pwmActive = FALSE,
                   !.attached = IF O.pwmActive THEN FALSE ELSE @,
                   !.low = TRUE, !.pwmVal = -1]

\* lines 530-580: O after the echo unit, n the loop's activeVoices
PwmStage(O, S, n) ==
    IF n > 0 \/ S.echo.globalEnabled
    THEN LET pwmVal == Clip8(HalfOf(O.mixedSample)) + 128
             sm     == IF ~O.pwmActive THEN pwmVal ELSE (O.smoothed * 7 + pwmVal) \div 8
         IN  [O EXCEPT !.pwmActive = TRUE, !.attached = TRUE, !.low = FALSE,
                       !.pwmVal = pwmVal, !.smoothed = sm,
                       !.duty = <<sm, 255 - sm>>]
    ELSE [O EXCEPT !.pwmActive = FALSE,
                   !.attached = IF O.pwmActive THEN FALSE ELSE @,
                   !.low = TRUE, !.pwmVal = -1]

\* the second half of updateSample
OutputStage(O, S0, S1, r) ==
    LET m == Mix(S0, S1, r)
    IN  PwmStage(EchoStage([O EXCEPT !.activeVoices = m.activeVoices,
                                     !.dry = m.mixedSample,
                                     !.echoSendSample = m.echoSendSample], S1, m),
                 S1, m.activeVoices)

\* the unobserved output
NoOut == [observed |-> FALSE]

\* after begin(): the buffer filled with 128, both pins attached to their LEDC
\* channels, the statics of updateSample at their initialisers
InitOut ==
    [observed |-> TRUE,
     delayBuffer |-> {}, delayBufferLen |-> MAX_DELAY_BUFFER_SIZE, delayWriteIndex |-> 0,
     pwmActive |-> FALSE, smoothed |-> 128,
     attached |-> TRUE,            \* ledcAttachPin done, ledcDetachPin not
     low |-> FALSE,                \* digitalWrite(pin, LOW) was the last write to the pins
     duty |-> <<0, 0>>,            \* the last ledcWrite to channel and channel2
     \* the last updateSample: its locals, dry the sum of the processed samples,
     \* echoRan whether it ran the echo unit (readIndex is of the last run),
     \* pwmVal -1 when it wrote no sample
     activeVoices |-> 0, dry |-> 0, echoSendSample |-> 0, mixedSample |-> 0,
     echoRan |-> FALSE, readIndex |-> 0, pwmVal |-> -1]

\* after begin(), setEcho(true, delayMs, ...) and w >= 1 invocations of the
\* interrupt with no voice active: the cursor at w, the buffer still silent
SilentEchoOut(w, delayMs, sr) ==
    [InitOut EXCEPT
        !.delayWriteIndex = w % MAX_DELAY_BUFFER_SIZE,
        !.pwmActive = TRUE, !.duty = <<128, 127>>, !.pwmVal = 128,
        !.echoRan = TRUE,
        !.readIndex = ReadIndexOf(w - 1, ClampDelay(DelaySamplesOf(delayMs, sr),
                                                    MAX_DELAY_BUFFER_SIZE),
                                  MAX_DELAY_BUFFER_SIZE)]

\* stopNote, line 358: ledcWrite(channel, 128)
LedcWriteCenter(O) == IF O.observed THEN [O EXCEPT !.duty[1] = 128] ELSE O


(***************************************************************************)
(* Room Bus framing (roomserial.cpp): calcCrc, encodeFrame, parserFeed     *)
(***************************************************************************)
RB_START_BYTE == 170

RB_END_BYTE == 85

ROOM_FRAME_SIZE == 24

RB_MAX_PACKET_SIZE == 1 + ROOM_FRAME_SIZE + 2 + 1

\* the polynomial 0x1021 and the initial value 0xFFFF of calcCrc
CrcPoly == 4129

CrcInit == 65535

\* a ^ b and a | b on n bits
RECURSIVE Xor(_, _, _)
Xor(a, b, n) == IF n = 0 THEN 0 ELSE ((a + b) % 2) + 2 * Xor(a \div 2, b \div 2, n - 1)

RECURSIVE Or(_, _, _)
Or(a, b, n) ==
    IF n = 0 THEN 0
    ELSE (IF a % 2 = 1 \/ b % 2 = 1 THEN 1 ELSE 0) + 2 * Or(a \div 2, b \div 2, n - 1)

\* lines 25-31: the loop over the bits of one byte, n bits to go
RECURSIVE CrcBits(_, _)
CrcBits(crc, n) ==
    IF n = 0 THEN crc
    ELSE CrcBits(IF crc >= U16 \div 2 THEN Xor((crc * 2) % U16, CrcPoly, 16)
                                       ELSE (crc * 2) % U16,
                 n - 1)

\* lines 22-32: the loop over the bytes, from byte i on
RECURSIVE CalcCrcFrom(_, _, _)
CalcCrcFrom(crc, data, i) ==
    IF crc < 0 \/ i > Len(data) THEN crc
    ELSE CalcCrcFrom(CrcBits(Xor(crc, data[i] * 256, 16), 8), data, i + 1)

\* calcCrc(data, length), data a sequence of length bytes
CalcCrc(data) == CalcCrcFrom(CrcInit, data, 1)

\* a RoomFrame (roombus.h:32-39); p is the sequence p[0] .. p[19]
RoomFrame(addr, cmd_srv, cmd_dev, p, reserved) ==
    [addr |-> addr, cmd_srv |-> cmd_srv, cmd_dev |-> cmd_dev, p |-> p, reserved |-> reserved]

\* lines 55-62: the logical payload of f
Payload(f) == <<f.addr, f.cmd_srv, f.cmd_dev>> \o f.p \o <<f.reserved>>

\* an encodeFrame that sends the CRC high byte first
EncodeFrameHighFirst(f, outBufSize) ==
    IF outBufSize < RB_MAX_PACKET_SIZE THEN <<>>
    ELSE LET crc == CalcCrc(Payload(f))
         IN  <<RB_START_BYTE>> \o Payload(f) \o <<(crc \div 256) % 256, crc % 256>>
                \o <<RB_END_BYTE>>

\* encodeFrame(f, outBuf, outBufSize): the bytes written to outBuf (none when
\* it returns 0)
EncodeFrame(f, outBufSize) ==
    IF outBufSize < RB_MAX_PACKET_SIZE THEN <<>>
    ELSE LET crc == CalcCrc(Payload(f))
         IN  <<RB_START_BYTE>> \o Payload(f) \o <<crc % 256, (crc \div 256) % 256>>
                \o <<RB_END_BYTE>>

\* lines 158-168: the payload b unpacked into *out
UnpackFrame(b) == RoomFrame(b[1], b[2], b[3], SubSeq(b, 4, 23), b[24])

\* the RoomBusParser after parserInit (lines 93-95); frameBytes is a member of
\* the RoomSerial object and is never read before all of it was written
InitParser ==
    [state |-> "WAIT_START", idx |-> 0, rxCrc |-> 0,
     frameBytes |-> [k \in 1 .. ROOM_FRAME_SIZE |-> 0]]

\* a parserFeed that accepts the frame whatever the CRC
ParserFeedNoCrc(P, byte, o) ==
    CASE P.state = "WAIT_START" ->
             [parser |-> IF byte = RB_START_BYTE
                         THEN [P EXCEPT !.idx = 0, !.rxCrc = 0, !.state = "READ_FRAME"]
                         ELSE P,
              out |-> o, ret |-> 0]
      [] P.state = "READ_FRAME" ->
             LET P1 == [P EXCEPT !.frameBytes[P.idx + 1] = byte, !.idx = (@ + 1) % 256]
             IN  [parser |-> IF P1.idx >= ROOM_FRAME_SIZE
                             THEN [P1 EXCEPT !.idx = 0, !.state = "READ_CRC_LO"]
                             ELSE P1,
                  out |-> o, ret |-> 0]
      [] P.state = "READ_CRC_LO" ->
             [parser |-> [P EXCEPT !.rxCrc = byte, !.state = "READ_CRC_HI"],
              out |-> o, ret |-> 0]
      [] P.state = "READ_CRC_HI" ->
             [parser |-> [P EXCEPT !.rxCrc = Or(@, byte * 256, 16), !.state = "WAIT_END"],
              out |-> o, ret |-> 0]
      [] P.state = "WAIT_END" ->
             IF byte = RB_END_BYTE
             THEN [parser |-> [P EXCEPT !.state = "WAIT_START"],
                   out |-> UnpackFrame(P.frameBytes), ret |-> 1]
             ELSE [parser |-> [P EXCEPT !.state = "WAIT_START"], out |-> o, ret |-> 0]

\* parserFeed(parser, byte, out), lines 115-185: the parser context and *out
\* after the call, and the value returned
ParserFeed(P, byte, o) ==
    CASE P.state = "WAIT_START" ->
             [parser |-> IF byte = RB_START_BYTE
                         THEN [P EXCEPT !.idx = 0, !.rxCrc = 0, !.state = "READ_FRAME"]
                         ELSE P,
              out |-> o, ret |-> 0]
      [] P.state = "READ_FRAME" ->
             LET P1 == [P EXCEPT !.frameBytes[P.idx + 1] = byte, !.idx = (@ + 1) % 256]
             IN  [parser |-> IF P1.idx >= ROOM_FRAME_SIZE
                             THEN [P1 EXCEPT !.idx = 0, !.state = "READ_CRC_LO"]
                             ELSE P1,
                  out |-> o, ret |-> 0]
      [] P.state = "READ_CRC_LO" ->
             [parser |-> [P EXCEPT !.rxCrc = byte, !.state = "READ_CRC_HI"],
              out |-> o, ret |-> 0]
      [] P.state = "READ_CRC_HI" ->
             [parser |-> [P EXCEPT !.rxCrc = Or(@, byte * 256, 16), !.state = "WAIT_END"],
              out |-> o, ret |-> 0]
      [] P.state = "WAIT_END" ->
             IF byte = RB_END_BYTE /\ CalcCrc(P.frameBytes) = P.rxCrc
             THEN [parser |-> [P EXCEPT !.state = "WAIT_START"],
                   out |-> UnpackFrame(P.frameBytes), ret |-> 1]
             ELSE [parser |-> [P EXCEPT !.state = "WAIT_START"], out |-> o, ret |-> 0]

(***************************************************************************)
(* Melodies (inputs of the model)                                          *)
(***************************************************************************)
MusicNote(n, d, adv, p) == [note |-> n, duration |-> d, advance |-> adv, preset |-> p]

\* the note arrays a caller passes to play(); currentMelody = 1 .. Len(Melodies)
Melodies ==
    << <<MusicNote(2 * SampleRate, 2, 1, "SOUND_BEEP"),
         MusicNote(0, 1, 0, "SOUND_DEFAULT"),
         MusicNote(3 * SampleRate, 1, 0, "SOUND_PLUCK"),
         MusicNote(2 * SampleRate, 1, 0, "SOUND_PLUCK"),
         MusicNote(3 * SampleRate, 0, 0, "SOUND_ORGAN")>>,
       <<MusicNote(440, 4, 0, "SOUND_ORGAN"),
         MusicNote(550, 4, 4, "SOUND_ORGAN"),
         MusicNote(660, 2, 2, "SOUND_ORGAN")>>,
       <<MusicNote(2 * SampleRate, 1, 1, "SOUND_BEEP"),
         MusicNote(0, 1, 2, "SOUND_DEFAULT"),
         MusicNote(3 * SampleRate, 1, 1, "SOUND_PLUCK")>> >>

\* what a read past the end of a note array may return
StrayNotes == {MusicNote(0, 0, 0, "SOUND_DEFAULT"), MusicNote(2 * SampleRate, 1, 1, "SOUND_ORGAN")}

\* MusicNote note = currentMelody[currentNoteIndex]
NoteAt(m, idx) ==
    IF idx < Len(Melodies[m]) THEN {Melodies[m][idx + 1]} ELSE StrayNotes

(***************************************************************************)
(* MusicPlayer::update (interrupt context).  W = [S, M, started, log,      *)
(* steps]: the Synth, the MusicPlayer, the voices the sequencer has        *)
(* (re)started in this invocation, the indices of the notes it started and *)
(* the indices of the notes it processed (rests too), in order.  An        *)
(* out-of-bounds read makes the result a set.                              *)
(***************************************************************************)
\* one note of the while loop with setSoundPreset called for a rest as well
ProcessNotePresetAlways(W, n) ==
    LET a  == [freq |-> n.note, dur |-> (n.duration * W.M.msPerTick) % U16, vol |-> 255]
        S1 == SetSoundPreset(W.S, n.preset)
        M1 == [W.M EXCEPT !.ticksUntilNextStep = n.advance,
                          !.currentNoteIndex = (@ + 1) % U16]
    IN  IF n.note > 0
        THEN [S |-> PlayNote(S1, a), M |-> M1,
              started |-> W.started \cup {SelectVoice(S1.voices)},
              log |-> Append(W.log, W.M.currentNoteIndex),
              steps |-> Append(W.steps, W.M.currentNoteIndex)]
        ELSE [W EXCEPT !.S = S1, !.M = M1, !.steps = Append(@, W.M.currentNoteIndex)]

\* lines 97-112: one note of the while loop
ProcessNote(W, n) ==
    LET a  == [freq |-> n.note, dur |-> (n.duration * W.M.msPerTick) % U16, vol |-> 255]
        S1 == SetSoundPreset(W.S, n.preset)
        M1 == [W.M EXCEPT !.ticksUntilNextStep = n.advance,
                          !.currentNoteIndex = (@ + 1) % U16]
    IN  IF n.note > 0
        THEN [S |-> PlayNote(S1, a), M |-> M1,
              started |-> W.started \cup {SelectVoice(S1.voices)},
              log |-> Append(W.log, W.M.currentNoteIndex),
              steps |-> Append(W.steps, W.M.currentNoteIndex)]
        ELSE [W EXCEPT !.M = M1, !.steps = Append(@, W.M.currentNoteIndex)]

\* lines 89-117: the while loop
RECURSIVE SequencerLoop(_)
SequencerLoop(W) ==
    IF ~(W.M.ticksUntilNextStep = 0 /\ W.M.playing) THEN {W}
    ELSE IF W.M.currentNoteIndex >= W.M.melodyLength
         THEN {[W EXCEPT !.M.playing = FALSE]}
         ELSE UNION {SequencerLoop(W1) :
                        W1 \in {ProcessNote(W, n) :
                                   n \in NoteAt(W.M.currentMelody, W.M.currentNoteIndex)}}

\* update() without the test of playing in line 72
MusicUpdateUnguarded(W) ==
    IF W.M.currentMelody = 0 THEN {W}
    ELSE LET M1 == [W.M EXCEPT !.tickCounter = @ + 1]
         IN  IF M1.tickCounter >= M1.samplesPerTick
             THEN SequencerLoop([W EXCEPT !.M =
                      [M1 EXCEPT !.tickCounter = 0,
                                 !.ticksUntilNextStep = IF @ > 0 THEN @ - 1 ELSE @]])
             ELSE {[W EXCEPT !.M = M1]}

\* lines 70-119: MusicPlayer::update
MusicUpdate(W) ==
    IF ~W.M.playing \/ W.M.currentMelody = 0 THEN {W}
    ELSE LET M1 == [W.M EXCEPT !.tickCounter = @ + 1]
         IN  IF M1.tickCounter >= M1.samplesPerTick
             THEN SequencerLoop([W EXCEPT !.M =
                      [M1 EXCEPT !.tickCounter = 0,
                                 !.ticksUntilNextStep = IF @ > 0 THEN @ - 1 ELSE @]])
             ELSE {[W EXCEPT !.M = M1]}

(***************************************************************************)
(* MusicPlayer, background methods, by source line                         *)
(***************************************************************************)
PlayStmts == <<"mp17", "mp18", "mp19", "sb54", "sb63", "sb66", "mp24", "mp25", "mp27">>

PlayerStmt(l, M, a, S) ==
    CASE l = "mp17" -> [M EXCEPT !.currentMelody = a.melody]
      [] l = "mp18" -> [M EXCEPT !.melodyLength = a.length]
      [] l = "mp19" -> [M EXCEPT !.currentNoteIndex = 0]
      [] l = "sb54" -> [M EXCEPT !.bpm = a.bpm]
      [] l = "sb63" -> [M EXCEPT !.samplesPerTick = (S.sampleRate * 15) \div M.bpm]
      [] l = "sb66" -> [M EXCEPT !.msPerTick = (15000 + (M.bpm \div 2)) \div M.bpm]
      [] l = "mp24" -> [M EXCEPT !.tickCounter = M.samplesPerTick]
      [] l = "mp25" -> [M EXCEPT !.ticksUntilNextStep = 0]
      [] l = "mp27" -> IF M.melodyLength > 0 THEN [M EXCEPT !.playing = TRUE] ELSE M
      [] l = "ms40" -> [M EXCEPT !.playing = FALSE]

PlayNext(l) ==
    LET k == CHOOSE n \in 1 .. Len(PlayStmts) : PlayStmts[n] = l
    IN  IF k = Len(PlayStmts) THEN "ret" ELSE PlayStmts[k + 1]

(***************************************************************************)
(* Inputs of the background calls                                          *)
(***************************************************************************)
\* The frequencies are multiples of the sample rate: phaseIncrement is then 0
\* (the cast cuts bit 32) and the phase accumulators add no states.
PlayNoteInputs ==
    {[freq |-> SampleRate, dur |-> 0, vol |-> 200],
     [freq |-> SampleRate, dur |-> 200, vol |-> 200]}

WaveformInputs == {"WAVE_SAWTOOTH"}

ADSRInputs == {[attack |-> 100, decay |-> 0, sustain |-> 100, release |-> 100]}

EchoInputs == {[enabled |-> TRUE, delayMs |-> 100, feedback |-> 50, mix |-> 128]}

PresetInputs == {"SOUND_ORGAN", "SOUND_FLUTE"}

\* SpecNote, at the application's sample rate: a short template, and two whose
\* decay and release last more samples than the level has steps
NoteADSRInputs ==
    {[attack |-> 0, decay |-> 0, sustain |-> 200, release |-> 0],
     [attack |-> 0, decay |-> 4000, sustain |-> 254, release |-> 0],
     [attack |-> 0, decay |-> 0, sustain |-> 1, release |-> 4000]}

\* half the sample rate: the phase accumulator alternates between 0 and 2^31
NotePlayInputs == {[freq |-> RealSampleRate \div 2, dur |-> 0, vol |-> 255]}

PlayInputs == {[melody |-> 1, length |-> Len(Melodies[1]), bpm |-> 150]}

\* SpecSong: both note arrays, at 150 and 100 beats per minute
SongInputs ==
    {[melody |-> m, length |-> Len(Melodies[m]), bpm |-> b] :
        m \in 1 .. Len(Melodies), b \in {150, 100}}

\* SpecOsc: every small frequency and the largest u16 as short notes, and
\* two one-second notes
OscNoteInputs ==
    {[freq |-> f, dur |-> 0, vol |-> 255] : f \in (0 .. MaxFreq) \cup {U16 - 1}}
        \cup {[freq |-> 440, dur |-> 1000, vol |-> 255],
              [freq |-> 10000, dur |-> 1000, vol |-> 255]}

\* SpecOut: a template whose phases last one sample each
ShortADSR == [attack |-> 0, decay |-> 0, sustain |-> 200, release |-> 0]

\* SpecOut: a waveform each, with and without echo send
OutPresets == {"SOUND_PLUCK", "SOUND_ORGAN", "SOUND_FLUTE", "SOUND_SYNTH_LEAD", "SOUND_PERCUSSION"}

\* SpecOut: delays of 1 sample (0 ms), 4000 samples, the buffer length (150 ms)
\* and more than the buffer length; echo off
OutEchoInputs ==
    {[enabled |-> TRUE, delayMs |-> d, feedback |-> 128, mix |-> 128] : d \in {0, 100, 150, U16 - 1}}
        \cup {[enabled |-> FALSE, delayMs |-> 100, feedback |-> 128, mix |-> 128]}

\* SpecOut: the write cursor at the start of the run
OutCursors == {0, MAX_DELAY_BUFFER_SIZE - 2}

\* SpecOut: frequency 0 and a quarter of the sample rate
OutNoteInputs ==
    {[freq |-> f, dur |-> 0, vol |-> 255] : f \in {0, InitSampleRate \div 4}}

(***************************************************************************)
(* Background code                                                         *)
(***************************************************************************)
NoArg == [kind |-> "none"]

\* the Room Bus out of use
NoBus == [used |-> FALSE]

\* int voiceIndex = -1; int i = 0; the sample-count local
NoLoc == [i |-> 0, voiceIndex |-> -1, tmp |-> 0]

InitHist ==
    [prev  |-> NoArg,                      \* the last completed background call
     rule  |-> -1,                         \* playNote in its scan: the voice the selection
                                           \* rule named when playNote was called
     free  |-> FALSE,                      \* playNote past its scan: the voice it selected
                                           \* was inactive when selected
     fin   |-> FALSE,                      \* the interrupt has finished a note (Release to Idle)
     deact |-> [i \in Channels |-> 0],     \* deactivations by the interrupt since the
                                           \* last note start on the voice (2 = more than one)
     ticks |-> -1,                         \* invocations of the interrupt that found the
                                           \* sequencer playing, mixed a voice or ran the
                                           \* observed echo unit (-1: not counted)
     limit |-> -1,                         \* the interrupt fires at most this often (-1: no limit)
     starts |-> <<>>,                      \* the notes of the song that the sequencer started,
                                           \* as <<invocation, note index>>, while ticks are
                                           \* counted: since play set the song (line 17), and
                                           \* since it reset the position (line 19) when the
                                           \* song is the one that was playing
     steps |-> <<>>,                       \* the notes of the song that the sequencer
                                           \* processed, rests too, kept as starts is
     beat  |-> -1,                         \* the invocation of the last sequencer tick (the
                                           \* per-sample counter reached samplesPerTick), kept
                                           \* as starts is (-1: none)
     gap   |-> -1,                         \* invocations from the sequencer tick before the
                                           \* last one to the last one (-1: fewer than two)
     begun |-> {},                         \* the voices the sequencer started in the last
                                           \* invocation of the interrupt
     wrote |-> <<>>]                       \* the bytes the echo unit wrote to the delay
                                           \* buffer in its first runs, one per run

\* the history of a run that counts the interrupt's invocations, up to n
CountedHist(n) == [InitHist EXCEPT !.ticks = 0, !.limit = n]

\* background code calls a method: kind and arguments a, first statement entry
Call(kind, a, entry) ==
    /\ pc = "idle"
    /\ calls > 0
    /\ calls' = calls - 1
    /\ pc' = entry
    /\ arg' = [kind |-> kind, a |-> a]
    /\ loc' = NoLoc
    /\ hist' = [hist EXCEPT !.rule = IF kind = "playNote" THEN RuleVoice(synth.voices) ELSE -1]
    /\ UNCHANGED <<synth, mp, out, bus>>

\* the statement at pc executes: the objects, locals and history after it, and
\* the next statement ("ret": the call returns)
Step(S, M, L, H, next) ==
    /\ synth' = S
    /\ mp' = M
    /\ calls' = calls
    /\ out' = out
    /\ bus' = bus
    /\ IF next = "ret"
       THEN /\ pc' = "idle"
            /\ arg' = NoArg
            /\ loc' = NoLoc
            /\ hist' = [H EXCEPT !.prev = arg, !.free = FALSE]
       ELSE /\ pc' = next
            /\ arg' = arg
            /\ loc' = L
            /\ hist' = H

\* Synth::playNote(freq, durationMs, volume), the arguments drawn from inputs
PlayNoteCalls(inputs) ==
    \/ \E a \in inputs : Call("playNote", a, "pn280")
    \/ /\ pc = "pn280"      \* first loop: one iteration
       /\ IF FreeAt(synth.voices, loc.i)
          THEN Step(synth, mp, [loc EXCEPT !.voiceIndex = loc.i],
                    [hist EXCEPT !.rule = -1, !.free = TRUE], "pn306")
          ELSE IF loc.i + 1 < NUM_CHANNELS
               THEN Step(synth, mp, [loc EXCEPT !.i = @ + 1], hist, "pn280")
               ELSE Step(synth, mp, [loc EXCEPT !.i = 0], hist, "pn294")
    \/ /\ pc = "pn294"      \* second loop: one iteration, and the fallback to voice 0
       /\ LET k == IF ReleaseAt(synth.voices, loc.i) THEN loc.i
                   ELSE IF loc.i + 1 < NUM_CHANNELS THEN -1 ELSE 0
          IN  IF k # -1
              THEN Step(synth, mp, [loc EXCEPT !.voiceIndex = k],
                        [hist EXCEPT !.rule = -1, !.free = ~synth.voices[k].active],
                        "pn306")
              ELSE Step(synth, mp, [loc EXCEPT !.i = @ + 1], hist, "pn294")
    \/ /\ pc \in {PlayNoteStmts[n] : n \in 1 .. Len(PlayNoteStmts)}
       /\ LET k == loc.voiceIndex
              v == PlayNoteWrite(pc, synth.voices[k], loc.tmp, arg.a, synth)
              t == PlayNoteLocal(pc, loc.tmp, synth)
              H == IF pc = "pn306" THEN [hist EXCEPT !.deact[k] = 0] ELSE hist
          IN  Step([synth EXCEPT !.voices[k] = v], mp, [loc EXCEPT !.tmp = t], H,
                   PlayNoteNext(pc))

BgPlayNote == PlayNoteCalls(PlayNoteInputs)

\* Synth::stopNote()
\* playNote(a) called and returned between two invocations of the interrupt;
\* the invocations are counted from its return, up to n
NoteStart(inputs, n) ==
    \E a \in inputs :
        /\ pc = "idle"
        /\ calls > 0
        /\ calls' = calls - 1
        /\ synth' = PlayNote(synth, a)
        /\ hist' = [hist EXCEPT !.prev = [kind |-> "playNote", a |-> a],
                                !.deact[SelectVoice(synth.voices)] = 0,
                                !.ticks = 0, !.limit = n, !.starts = <<>>]
        /\ UNCHANGED <<mp, pc, arg, loc, out, bus>>

StopNoteSteps ==
    \/ /\ pc = "sn355"
       /\ Step(StopNoteStmt(pc, synth, loc.i), mp, loc, hist, "sn356")
    \/ /\ pc = "sn356"
       /\ Step(StopNoteStmt(pc, synth, loc.i), mp, [loc EXCEPT !.i = @ + 1], hist,
               IF loc.i + 1 < NUM_CHANNELS THEN "sn355" ELSE "sn358")
    \/ /\ pc = "sn358"      \* ledcWrite(channel, 128)
       /\ synth' = synth /\ mp' = mp /\ calls' = calls
       /\ out' = LedcWriteCenter(out)
       /\ bus' = bus
       /\ pc' = "idle" /\ arg' = NoArg /\ loc' = NoLoc
       /\ hist' = [hist EXCEPT !.prev = arg, !.free = FALSE]

BgStopNote ==
    \/ Call("stopNote", NoArg, "sn355")
    \/ arg.kind = "stopNote" /\ StopNoteSteps

\* Synth::setWaveform(wave)
BgSetWaveform ==
    \/ \E w \in WaveformInputs : Call("setWaveform", w, "sw175")
    \/ /\ pc = "sw175"
       /\ Step(SetWaveform(synth, arg.a), mp, loc, hist, "ret")

\* Synth::setADSR(attack, decay, sustain, release)
BgSetADSR ==
    \/ \E a \in ADSRInputs : Call("setADSR", a, "sa183")
    \/ /\ pc \in {"sa183", "sa184", "sa185", "sa186"}
       /\ Step(SetADSRStmt(pc, synth, arg.a), mp, loc, hist,
               CASE pc = "sa183" -> "sa184" [] pc = "sa184" -> "sa185"
                 [] pc = "sa185" -> "sa186" [] pc = "sa186" -> "ret")

\* Synth::setEcho(enabled, delayMs, feedback, mix), the arguments drawn from inputs
SetEchoCalls(inputs) ==
    \/ \E a \in inputs : Call("setEcho", a, "se194")
    \/ /\ pc \in {"se194", "se195", "se196", "se197"}
       /\ Step(SetEchoStmt(pc, synth, arg.a), mp, loc, hist,
               CASE pc = "se194" -> "se195" [] pc = "se195" -> "se196"
                 [] pc = "se196" -> "se197" [] pc = "se197" -> "ret")

BgSetEcho == SetEchoCalls(EchoInputs)

\* Synth::setSoundPreset(preset): setWaveform (line 120), the four statements of
\* setADSR (line 121), the switch (lines 124-136)
BgSetSoundPreset ==
    \/ \E p \in PresetInputs : Call("setSoundPreset", p, "sp120")
    \/ /\ pc = "sp120"
       /\ Step(SetWaveform(synth, SOUND_PRESETS[arg.a][1]), mp, loc, hist, "sp183")
    \/ /\ pc \in {"sp183", "sp184", "sp185", "sp186"}
       /\ Step(SetADSRStmt(CASE pc = "sp183" -> "sa183" [] pc = "sp184" -> "sa184"
                             [] pc = "sp185" -> "sa185" [] pc = "sp186" -> "sa186",
                           synth, PresetADSR(arg.a)),
               mp, loc, hist,
               CASE pc = "sp183" -> "sp184" [] pc = "sp184" -> "sp185"
                 [] pc = "sp185" -> "sp186" [] pc = "sp186" -> "sp124")
    \/ /\ pc = "sp124"
       /\ Step(SetPresetEcho(synth, arg.a), mp, loc, hist, "ret")

\* Synth::setMusicPlayer(player)
BgSetMusicPlayer ==
    \/ /\ ~synth.musicPlayer
       /\ Call("setMusicPlayer", NoArg, "sm98")
    \/ /\ pc = "sm98"
       /\ Step([synth EXCEPT !.musicPlayer = TRUE], mp, loc, hist, "ret")

\* MusicPlayer::play(melody, length, bpm), with setBPM inlined, the arguments
\* drawn from inputs
\* play is called with the song of the play call before it
SameSongAgain == hist.prev.kind = "play" /\ hist.prev.a.melody = arg.a.melody

PlayCalls(inputs) ==
    \/ \E a \in inputs : Call("play", a, "mp17")
    \/ /\ pc \in {PlayStmts[n] : n \in 1 .. Len(PlayStmts)}
       /\ Step(synth, PlayerStmt(pc, mp, arg.a, synth), loc,
               IF pc = "mp17" \/ (pc = "mp19" /\ SameSongAgain)
               THEN [hist EXCEPT !.starts = <<>>, !.steps = <<>>, !.beat = -1, !.gap = -1]
               ELSE hist,
               PlayNext(pc))

BgPlay == PlayCalls(PlayInputs)

\* MusicPlayer::stop(): playing = false, then synth->stopNote()
BgStop ==
    \/ Call("stop", NoArg, "ms40")
    \/ /\ pc = "ms40"
       /\ Step(synth, PlayerStmt(pc, mp, arg.a, synth), loc, hist, "sn355")
    \/ arg.kind = "stop" /\ StopNoteSteps

(***************************************************************************)
(* The sample-timer interrupt: sampleTimerISR -> Synth::updateSample       *)
(***************************************************************************)
\* the history after an invocation that went from the current state to W (after
\* the sequencer) and then to S
HistTick(H, W, S) ==
    LET off(i) == W.S.voices[i].active /\ ~S.voices[i].active
        \* lines 72-79: the sequencer ran and its per-sample counter reached samplesPerTick
        beat   == /\ S.musicPlayer /\ mp.playing /\ mp.currentMelody # 0
                  /\ mp.tickCounter + 1 >= mp.samplesPerTick
    IN  [H EXCEPT
           !.fin = @ \/ \E i \in Channels : off(i) /\ W.S.voices[i].envState = "RELEASE",
           !.deact = [i \in Channels |->
                        LET d == IF i \in W.started THEN 0 ELSE @[i]
                        IN  IF off(i) THEN (IF d = 0 THEN 1 ELSE 2) ELSE d],
           !.ticks = IF @ >= 0 /\ (\/ IsPlaying(W.S)
                                   \/ mp.playing
                                   \/ out.observed /\ W.S.echo.globalEnabled)
                     THEN @ + 1 ELSE @,
           !.starts = IF H.ticks < 0 THEN @
                      ELSE @ \o [k \in 1 .. Len(W.log) |-> <<H.ticks + 1, W.log[k]>>],
           !.steps = IF H.ticks < 0 THEN @
                     ELSE @ \o [k \in 1 .. Len(W.steps) |-> <<H.ticks + 1, W.steps[k]>>],
           !.beat = IF H.ticks >= 0 /\ beat THEN H.ticks + 1 ELSE @,
           !.gap = IF H.ticks >= 0 /\ beat /\ H.beat >= 0 THEN H.ticks + 1 - H.beat ELSE @,
           !.begun = W.started]

\* updateSample with the voice loop ahead of musicPlayer->update()
TickVoicesFirst ==
    LET W0 == [S |-> UpdateVoices(synth), M |-> mp, started |-> {}, log |-> <<>>, steps |-> <<>>]
    IN  /\ hist.limit < 0 \/ hist.ticks < hist.limit
        /\ \E W \in (IF synth.musicPlayer THEN MusicUpdate(W0) ELSE {W0}) :
            /\ synth' = W.S
            /\ mp' = W.M
            /\ hist' = HistTick(hist, W, W.S)
            /\ IF out.observed
               THEN \E r \in NoiseDraws(synth) :
                        out' = OutputStage(out, synth, UpdateVoices(synth), r)
               ELSE out' = out
            /\ UNCHANGED <<pc, arg, loc, calls, bus>>

Tick ==
    LET W0 == [S |-> synth, M |-> mp, started |-> {}, log |-> <<>>, steps |-> <<>>]
    IN  /\ hist.limit < 0 \/ hist.ticks < hist.limit
        /\ \E W \in (IF synth.musicPlayer THEN MusicUpdate(W0) ELSE {W0}) :
            /\ synth' = UpdateVoices(W.S)
            /\ mp' = W.M
            /\ hist' = HistTick(hist, W, UpdateVoices(W.S))
            /\ IF out.observed
               THEN \E r \in NoiseDraws(W.S) :
                        out' = OutputStage(out, W.S, UpdateVoices(W.S), r)
               ELSE out' = out
            /\ UNCHANGED <<pc, arg, loc, calls, bus>>

(***************************************************************************)
(* Specifications                                                          *)
(***************************************************************************)
InitWith(sr, n) ==
    /\ synth = InitSynth(sr)
    /\ mp = InitPlayer
    /\ pc = "idle"
    /\ arg = NoArg
    /\ loc = NoLoc
    /\ calls = n
    /\ out = NoOut
    /\ bus = NoBus
    /\ hist = InitHist

Init == InitWith(SampleRate, MaxCalls)

Next ==
    \/ Tick
    \/ BgPlayNote
    \/ BgStopNote
    \/ BgSetWaveform
    \/ BgSetADSR
    \/ BgSetEcho
    \/ BgSetSoundPreset
    \/ BgSetMusicPlayer
    \/ BgPlay
    \/ BgStop

Spec == Init /\ [][Next]_vars

\* Polyphony: background code only starts notes.
InitPoly == InitWith(SampleRate, MaxPolyCalls)

NextPoly == Tick \/ BgPlayNote

SpecPoly == InitPoly /\ [][NextPoly]_vars

\* Sequencer: setMusicPlayer has attached the MusicPlayer.
InitSeq ==
    /\ synth = [InitSynth(SampleRate) EXCEPT !.musicPlayer = TRUE]
    /\ mp = InitPlayer
    /\ pc = "idle"
    /\ arg = NoArg
    /\ loc = NoLoc
    /\ calls = MaxSeqCalls
    /\ out = NoOut
    /\ bus = NoBus
    /\ hist = InitHist

NextSeq == Tick \/ BgPlay \/ BgStop \/ BgSetSoundPreset \/ BgPlayNote \/ BgStopNote

SpecSeq == InitSeq /\ [][NextSeq]_vars

\* Notes at the application's sample rate, after begin(RealSampleRate) and one
\* setADSR.  The sample timer keeps firing and background code runs on: both
\* are weakly fair.
InitNote ==
    \E a \in NoteADSRInputs :
        /\ synth = SetADSR(InitSynth(RealSampleRate), a)
        /\ mp = InitPlayer
        /\ pc = "idle"
        /\ arg = NoArg
        /\ loc = NoLoc
        /\ calls = MaxNoteCalls
        /\ out = NoOut
        /\ bus = NoBus
        /\ hist = InitHist

NotePlayNote == PlayNoteCalls(NotePlayInputs)

NextNote == Tick \/ NotePlayNote

SpecNote == InitNote /\ [][NextNote]_vars /\ WF_vars(Tick) /\ WF_vars(NotePlayNote)

\* Oscillator, at the rate of Synth::init: one playNote call that returns
\* before the next sample, and the samples of the second after it.
InitOsc == InitWith(InitSampleRate, 1)

OscPlayNote == NoteStart(OscNoteInputs, InitSampleRate)

NextOsc == Tick \/ OscPlayNote

SpecOsc == InitOsc /\ [][NextOsc]_vars

\* Output: init(preset), setADSR(short template) and setEcho; with the echo on,
\* the interrupt may have run any number of times with no voice active.  The
\* output half of updateSample is observed.
InitOutput ==
    \E p \in OutPresets, e \in OutEchoInputs, w \in OutCursors :
        /\ e.enabled \/ w = 0
        /\ synth = SetEcho(SetADSR(SetSoundPreset(InitSynth(InitSampleRate), p), ShortADSR), e)
        /\ mp = InitPlayer
        /\ pc = "idle"
        /\ arg = NoArg
        /\ loc = NoLoc
        /\ calls = MaxOutCalls
        /\ out = IF w = 0 THEN InitOut ELSE SilentEchoOut(w, e.delayMs, InitSampleRate)
        /\ bus = NoBus
        /\ hist = CountedHist(MaxOutTicks)

OutPlayNote == NoteStart(OutNoteInputs, MaxOutTicks)

OutSetEcho == SetEchoCalls(OutEchoInputs)

NextOutput == Tick \/ OutPlayNote \/ OutSetEcho \/ BgStopNote

SpecOutput == InitOutput /\ [][NextOutput]_vars

\* Songs: the MusicPlayer attached, play called and called again, and the
\* sample timer firing on.  The interrupt's invocations are counted while the song plays
\* or a voice sounds.
InitSong ==
    /\ synth = [InitSynth(SampleRate) EXCEPT !.musicPlayer = TRUE]
    /\ mp = InitPlayer
    /\ pc = "idle"
    /\ arg = NoArg
    /\ loc = NoLoc
    /\ calls = MaxSongCalls
    /\ out = NoOut
    /\ bus = NoBus
    /\ hist = CountedHist(MaxSongTicks)

SongPlay == PlayCalls(SongInputs)

NextSong == Tick \/ SongPlay

SpecSong == InitSong /\ [][NextSong]_vars /\ WF_vars(Tick) /\ WF_vars(SongPlay)

\* Order inside one invocation: the MusicPlayer attached at the power-on sample
\* rate, play called and called again, the output half of updateSample
\* observed, over the first invocations of the interrupt after play.
InitOrder ==
    /\ synth = [InitSynth(InitSampleRate) EXCEPT !.musicPlayer = TRUE]
    /\ mp = InitPlayer
    /\ pc = "idle"
    /\ arg = NoArg
    /\ loc = NoLoc
    /\ calls = MaxOrderCalls
    /\ out = InitOut
    /\ bus = NoBus
    /\ hist = CountedHist(MaxOrderTicks)

OrderPlay == PlayCalls(SongInputs)

NextOrder == Tick \/ OrderPlay

SpecOrder == InitOrder /\ [][NextOrder]_vars

\* Sample counts and rates: at the power-on sample rate, after setADSR with
\* times at the ends of the u16 range and on both sides of INT_MAX / 40000, a
\* note is started by playNote, or by the sequencer's loop body for a note and
\* a tempo.  The build's way with an int overflow is one or the other.
RateMs == {0, 1, 10, IntLimitMs, IntLimitMs + 1, U16 - 1}

InitRates ==
    \E o \in IntOverflows, at \in RateMs, dc \in RateMs, rl \in RateMs, su \in {0, 200, 255} :
        /\ synth = SetADSR([InitSynth(InitSampleRate) EXCEPT !.intOverflow = o,
                                                             !.musicPlayer = TRUE],
                           [attack |-> at, decay |-> dc, sustain |-> su, release |-> rl])
        /\ mp = InitPlayer
        /\ pc = "idle"
        /\ arg = NoArg
        /\ loc = NoLoc
        /\ calls = MaxRateCalls
        /\ out = NoOut
        /\ bus = NoBus
        /\ hist = InitHist

RatePlayNote ==
    NoteStart({[freq |-> 440, dur |-> d, vol |-> 255] : d \in RateMs \cup {1000}}, 0)

\* lines 97-112 for a note of pitch 440 and duration d, the tempo set by setBPM(b)
RateSequencerNote ==
    \E d \in {0, 2, 5, 700, U16 - 1}, b \in {1, 150, 255} :
        LET M == PlayerStmt("sb66", PlayerStmt("sb54", mp, [bpm |-> b], synth), [bpm |-> b], synth)
            W == ProcessNote([S |-> synth, M |-> M, started |-> {}, log |-> <<>>, steps |-> <<>>],
                             MusicNote(440, d, 1, "SOUND_ORGAN"))
        IN  /\ pc = "idle"
            /\ calls > 0
            /\ calls' = calls - 1
            /\ synth' = W.S
            /\ mp' = W.M
            /\ hist' = [hist EXCEPT !.prev = [kind |-> "sequencerNote", a |-> [duration |-> d]]]
            /\ UNCHANGED <<pc, arg, loc, out, bus>>

NextRates == RatePlayNote \/ RateSequencerNote

SpecRates == InitRates /\ [][NextRates]_vars

\* The output stage alone (lines 530-580), with the echo unit on or off, from
\* the state after begin() and from states in which the last invocation wrote
\* a sample: it receives every number n of voices the loop can have mixed and
\* every value mixedSample can have then.  A voice contributes -128 .. 126
\* (sample -128 .. 127, envelope and volume up to 255, >> 16) and the echo
\* unit, when on, as much ((delayed * mix) >> 8).
InitPwm ==
    \E e \in BOOLEAN, a \in BOOLEAN, s \in {0, 128, 255} :
        /\ synth = [InitSynth(InitSampleRate) EXCEPT !.echo.globalEnabled = e]
        /\ mp = InitPlayer
        /\ pc = "idle"
        /\ arg = NoArg
        /\ loc = NoLoc
        /\ calls = 0
        /\ out = IF a THEN [InitOut EXCEPT !.pwmActive = TRUE, !.pwmVal = s, !.smoothed = s,
                                           !.duty = <<s, 255 - s>>]
                 ELSE InitOut
        /\ bus = NoBus
        /\ hist = CountedHist(MaxPwmSteps)

PwmStep ==
    /\ hist.ticks < hist.limit
    /\ \E n \in 0 .. NUM_CHANNELS :
          LET k == n + (IF synth.echo.globalEnabled THEN 1 ELSE 0)
          IN  \E m \in (-128 * k) .. (126 * k) :
                  out' = PwmStage([out EXCEPT !.activeVoices = n, !.mixedSample = m], synth, n)
    /\ hist' = [hist EXCEPT !.ticks = @ + 1]
    /\ UNCHANGED <<synth, mp, pc, arg, loc, calls, bus>>

NextPwm == PwmStep

SpecPwm == InitPwm /\ [][NextPwm]_vars

\* The echo unit alone (lines 491-527), switched on with a constant delayMs:
\* the voices send to the echo bus during the first MaxEchoSends samples and
\* are silent from then on.
MaxEchoSends == 2

EchoSends == {-3, 0, 100}

EchoUnitInputs ==
    {[enabled |-> TRUE, delayMs |-> d, feedback |-> 128, mix |-> 128] : d \in {0, 150}}

\* the samples that are counted, and the writes of the first of them recorded
MaxEchoTicks == MAX_DELAY_BUFFER_SIZE + MaxEchoSends + 1

InitEcho ==
    \E e \in EchoUnitInputs, w \in OutCursors :
        /\ synth = SetEcho(InitSynth(InitSampleRate), e)
        /\ mp = InitPlayer
        /\ pc = "idle"
        /\ arg = NoArg
        /\ loc = NoLoc
        /\ calls = 0
        /\ out = [InitOut EXCEPT !.delayWriteIndex = w]
        /\ bus = NoBus
        /\ hist = CountedHist(MaxEchoSends)

EchoStep ==
    /\ \E s \in (IF hist.ticks < hist.limit THEN EchoSends ELSE {0}) :
          out' = EchoStage([out EXCEPT !.dry = s, !.echoSendSample = s], synth,
                           [echoSendSample |-> s, mixedSample |-> s])
    /\ hist' = [hist EXCEPT
                  !.ticks = IF @ < MaxEchoTicks THEN @ + 1 ELSE @,
                  !.wrote = IF hist.ticks <= hist.limit
                            THEN Append(@, ReadCell(out'.delayBuffer, out.delayWriteIndex))
                            ELSE @]
    /\ UNCHANGED <<synth, mp, pc, arg, loc, calls, bus>>

NextEcho == EchoStep

SpecEcho == InitEcho /\ [][NextEcho]_vars

\* The tail of an echo: the echo unit on, the buffer holding what earlier
\* samples left in cell 0, and no voice sending to the echo bus any more.  The
\* sample timer keeps firing: weakly fair.
TailCells == {125, 127, 131}

InitTail ==
    \E e \in EchoUnitInputs, b \in TailCells :
        /\ synth = SetEcho(InitSynth(InitSampleRate), e)
        /\ mp = InitPlayer
        /\ pc = "idle"
        /\ arg = NoArg
        /\ loc = NoLoc
        /\ calls = 0
        /\ out = [InitOut EXCEPT !.delayBuffer = {<<0, b>>}]
        /\ bus = NoBus
        /\ hist = InitHist

TailStep ==
    /\ out' = EchoStage([out EXCEPT !.dry = 0, !.echoSendSample = 0], synth,
                        [echoSendSample |-> 0, mixedSample |-> 0])
    /\ UNCHANGED <<synth, mp, pc, arg, loc, calls, bus, hist>>

NextTail == TailStep

SpecTail == InitTail /\ [][NextTail]_vars /\ WF_vars(TailStep)

\* The oscillator of one voice: lines 404-408 of updateSample applied again and
\* again to a voice of every waveform, from accumulators at the ends and in the
\* middle of the range, with increments of one phase step, of one unit, of one
\* unit less than a phase step, and of nothing.
WaveStarts == {<<0, 0>>, <<U16 \div 2 - 1, U16 - 1>>, <<U16 - 1, U16 - 1>>}

WaveIncrements == {<<256, 0>>, <<0, 1>>, <<255, U16 - 1>>, <<0, 0>>}

InitWave ==
    \E w \in Waveforms, a \in WaveStarts, d \in WaveIncrements :
        /\ synth = [InitSynth(InitSampleRate) EXCEPT
                       !.voices[0] = [InitVoice EXCEPT !.active = TRUE,
                                                       !.waveform = w,
                                                       !.phaseAccumulator = a,
                                                       !.phaseIncrement = d]]
        /\ mp = InitPlayer
        /\ pc = "us404"
        /\ arg = NoArg
        /\ loc = NoLoc
        /\ calls = 0
        /\ out = NoOut
        /\ bus = NoBus
        /\ hist = CountedHist(MaxWaveSteps)

\* v.phaseAccumulator += v.phaseIncrement; phase = v.phaseAccumulator >> 24;
\* waveValue = generateSample(phase, v.waveform).  arg holds the arguments of
\* generateSample and loc.tmp the value it returned.
OscillatorStep ==
    /\ pc = "us404"
    /\ hist.ticks < hist.limit
    /\ LET v  == synth.voices[0]
           v1 == [v EXCEPT !.phaseAccumulator = AddPhase(@, v.phaseIncrement)]
       IN  \E r \in (IF v.waveform = "WAVE_NOISE" THEN NoiseBytes ELSE {0}) :
               /\ synth' = [synth EXCEPT !.voices[0] = v1]
               /\ arg' = [kind |-> "generateSample",
                          a |-> [phase |-> PhaseOf(v1), wave |-> v1.waveform]]
               /\ loc' = [NoLoc EXCEPT !.tmp = GenerateSample(PhaseOf(v1), v1.waveform, r)]
    /\ hist' = [hist EXCEPT !.ticks = @ + 1]
    /\ UNCHANGED <<mp, pc, calls, out, bus>>

NextWave == OscillatorStep

SpecWave == InitWave /\ [][NextWave]_vars

\* The Room Bus: sendFrame encodes a frame and writes it to the line, and
\* receiveFrame feeds the parser the bytes that arrive, one per call of
\* parserFeed.  The line delivers the bytes in order; it may drop a byte,
\* deliver another byte in its place, or deliver a byte nobody sent.
Fill(b) == [k \in 1 .. 20 |-> b]

\* frames of equal bytes (among them the START and the END byte), a frame with
\* a different byte in every field, and two frames whose CRC is 0x55AA and
\* 0xAA55: its bytes on the wire are the START and the END byte
FrameInputs ==
    {RoomFrame(b, b, b, Fill(b), b) : b \in {0, RB_START_BYTE, RB_END_BYTE}}
        \cup {RoomFrame(1, 64, 0, [k \in 1 .. 20 |-> k + 1], 126),
              RoomFrame(92, 79, 1, Fill(0), 0),
              RoomFrame(65, 63, 0, Fill(0), 0)}

\* the bytes the line delivers in place of, or between, the bytes sent
FaultBytes == {RB_START_BYTE, RB_END_BYTE, 0}

InitBus ==
    /\ synth = InitSynth(InitSampleRate)
    /\ mp = InitPlayer
    /\ pc = "idle"
    /\ arg = NoArg
    /\ loc = NoLoc
    /\ calls = 0
    /\ out = NoOut
    /\ hist = InitHist
    /\ bus = [used   |-> TRUE,
              frame  |-> RoomFrame(0, 0, 0, Fill(0), 0),  \* the frame sendFrame encoded last
              wire   |-> <<>>,                            \* the bytes of it still to arrive
              parser |-> InitParser,
              out    |-> RoomFrame(0, 0, 0, Fill(0), 0),  \* the caller's RoomFrame
              ret    |-> -1,                              \* the last value parserFeed returned
              sends  |-> MaxBusSends,
              faults |-> MaxBusFaults,
              \* for the properties only: the byte of the last step's call of
              \* parserFeed (-1: the step called none) and the state of the parser
              \* before it; the bytes of the frame that have arrived; the bytes fed
              \* since the frame's first were its own, the first fed in WAIT_START
              byte   |-> -1,
              from   |-> "WAIT_START",
              pos    |-> 0,
              clean  |-> FALSE]

\* the bus after parserFeed(&parser, byte, frame)
Fed(byte) ==
    LET r == ParserFeed(bus.parser, byte, bus.out)
    IN  [bus EXCEPT !.parser = r.parser, !.out = r.out, !.ret = r.ret,
                    !.byte = byte, !.from = bus.parser.state]

\* RoomSerial::sendFrame(frame): encodeFrame into txBuffer, serial.write
BusSendFrame ==
    /\ bus.used
    /\ bus.wire = <<>>
    /\ bus.sends > 0
    /\ \E f \in FrameInputs :
           bus' = [bus EXCEPT !.frame = f, !.wire = EncodeFrame(f, RB_MAX_PACKET_SIZE),
                              !.sends = @ - 1, !.byte = -1, !.pos = 0, !.clean = FALSE]
    /\ UNCHANGED <<synth, mp, pc, arg, loc, calls, out, hist>>

\* RoomSerial::receiveFrame(frame), one turn of its loop: the next byte sent arrives
BusReceive ==
    /\ bus.used
    /\ bus.wire # <<>>
    /\ bus' = [Fed(Head(bus.wire)) EXCEPT
                  !.wire = Tail(@), !.pos = @ + 1,
                  !.clean = IF bus.pos = 0 THEN bus.parser.state = "WAIT_START" ELSE @]
    /\ UNCHANGED <<synth, mp, pc, arg, loc, calls, out, hist>>

\* the line loses the next byte
BusDrop ==
    /\ bus.used
    /\ bus.wire # <<>>
    /\ bus.faults > 0
    /\ bus' = [bus EXCEPT !.wire = Tail(@), !.pos = @ + 1, !.clean = FALSE,
                          !.byte = -1, !.faults = @ - 1]
    /\ UNCHANGED <<synth, mp, pc, arg, loc, calls, out, hist>>

\* another byte arrives in place of the next byte
BusCorrupt ==
    /\ bus.used
    /\ bus.wire # <<>>
    /\ bus.faults > 0
    /\ \E b \in FaultBytes \ {Head(bus.wire)} :
           bus' = [Fed(b) EXCEPT !.wire = Tail(@), !.pos = @ + 1, !.clean = FALSE,
                                 !.faults = @ - 1]
    /\ UNCHANGED <<synth, mp, pc, arg, loc, calls, out, hist>>

\* a byte nobody sent arrives
BusNoise ==
    /\ bus.used
    /\ bus.faults > 0
    /\ \E b \in FaultBytes :
           bus' = [Fed(b) EXCEPT !.clean = FALSE, !.faults = @ - 1]
    /\ UNCHANGED <<synth, mp, pc, arg, loc, calls, out, hist>>

NextBus == BusSendFrame \/ BusReceive \/ BusDrop \/ BusCorrupt \/ BusNoise

SpecBus == InitBus /\ [][NextBus]_vars

(***************************************************************************)
(* Properties                                                              *)
(***************************************************************************)
PlayNoteStmtSet == {PlayNoteStmts[n] : n \in 1 .. Len(PlayNoteStmts)}

\* the statements of playNote that follow statement l
StmtsAfter(l) ==
    LET k == CHOOSE n \in 1 .. Len(PlayNoteStmts) : PlayNoteStmts[n] = l
    IN  {PlayNoteStmts[n] : n \in (k + 1) .. Len(PlayNoteStmts)}

ActiveVoices(S) == {i \in Channels : S.voices[i].active}

SmallerOf(a, b) == IF a < b THEN a ELSE b

\* C1: playNote (re)initialises exactly the voice the selection rule names (the
\* lowest-index inactive voice; if every voice is active the lowest-index voice
\* in Release; else voice 0), and its statements modify no other voice.  The
\* rule is read in the claim's favour: on the voices as they are when playNote
\* is called or as they are when its scan ends, and another voice is let pass
\* if it is inactive or in Release.
C1_SelectionRule ==
    [][/\ (pc \in {"pn280", "pn294"} /\ pc' = "pn306")
            => \/ loc'.voiceIndex \in {hist.rule, RuleVoice(synth.voices)}
               \/ ~synth.voices[loc'.voiceIndex].active
               \/ synth.voices[loc'.voiceIndex].envState = "RELEASE"
       /\ (pc \in PlayNoteStmtSet /\ pc' # pc)
            => \A i \in Channels \ {loc.voiceIndex} :
                   synth'.voices[i] = synth.voices[i]]_vars

\* C2: playNote never fails to start a note.  From all voices idle, as long as
\* the interrupt has finished no note, k completed playNote calls leave
\* min(k, 4) voices active: the first four calls each take a free voice and
\* the fifth reuses one, so that all four voices are active after it.
C2_NeverFailsToStart ==
    (pc = "idle" /\ ~hist.fin)
        => Cardinality(ActiveVoices(synth)) = SmallerOf(MaxPolyCalls - calls, NUM_CHANNELS)

\* C3: playNote writes the fields of the selected voice first and marks it
\* active only then, followed by envState = Attack and envLevel = 0 at most;
\* so the interrupt never finds a voice active that was inactive when playNote
\* selected it and that playNote has not finished populating.
C3_ActiveSetLast ==
    [][/\ (/\ pc \in PlayNoteStmtSet
           /\ pc' # pc
           /\ ~synth.voices[loc.voiceIndex].active
           /\ synth'.voices[loc.voiceIndex].active)
            => StmtsAfter(pc) \subseteq {"pn317", "pn318"}
       /\ (/\ pc \in PlayNoteStmtSet
           /\ pc' = pc
           /\ hist.free
           /\ ~(({pc} \cup StmtsAfter(pc)) \subseteq {"pn306", "pn317", "pn318"}))
            => ~synth.voices[loc.voiceIndex].active]_vars

\* C4: in every reachable state the envelope level of every voice lies in
\* [0, 255 << 16]: it never exceeds the maximum and never wraps below 0.
C4_EnvLevelInRange ==
    \A i \in Channels :
        /\ synth.voices[i].envLevel >= 0
        /\ synth.voices[i].envLevel <= MaxLevel

\* a voice in Release whose level the interrupt has lowered, but not to 0
C4_Witness ==
    \E i \in Channels :
        /\ synth.voices[i].active
        /\ synth.voices[i].envState = "RELEASE"
        /\ synth.voices[i].envLevel > 0
        /\ synth.voices[i].envLevel < synth.voices[i].sustainLevelFixed

\* C5: a sample tick that leaves a voice in the same envelope state does not
\* lower its level in Attack, does not raise it in Decay or Release, and in
\* Sustain leaves it unchanged and equal to sustainLevelFixed.
C5_EnvelopeMonotone ==
    \A i \in Channels :
        LET v == synth.voices[i]
            w == UpdateEnvelope(v)
        IN  (v.active /\ w.envState = v.envState) =>
                /\ v.envState = "ATTACK" => w.envLevel >= v.envLevel
                /\ v.envState \in {"DECAY", "RELEASE"} => w.envLevel <= v.envLevel
                /\ v.envState = "SUSTAIN" =>
                       (w.envLevel = v.envLevel /\ v.envLevel = v.sustainLevelFixed)

\* C6: a voice goes from active to inactive only by stopNote, or by a sample
\* tick that finds it in Release and sets its level to 0; the interrupt does
\* this at most once between two note starts on the voice.
C6_DeactivationOnlyAtReleaseEnd ==
    [][\A i \in Channels :
          (synth.voices[i].active /\ ~synth'.voices[i].active) =>
              \/ (arg.kind \in {"stopNote", "stop"} /\ pc = "sn355" /\ loc.i = i)
              \/ /\ pc' = pc
                 /\ loc' = loc
                 /\ synth.voices[i].envState = "RELEASE"
                 /\ synth'.voices[i].envState = "IDLE"
                 /\ synth'.voices[i].envLevel = 0
                 /\ hist'.deact[i] = 1]_vars

\* C7: every note ends by sample ticks alone: once background code has made
\* its last call, isPlaying() eventually returns false.
C7_SelfTerminates == (pc = "idle" /\ calls = 0) ~> ~IsPlaying(synth)

\* C8: when stopNote() returns, every voice is inactive and Idle (isPlaying()
\* is false), also when the sample interrupt fired while stopNote was running.
C8_PanicStop ==
    [][(arg.kind = "stopNote" /\ pc = "sn358" /\ pc' = "idle")
          => \A i \in Channels :
                 ~synth'.voices[i].active /\ synth'.voices[i].envState = "IDLE"]_vars

\* C9: setWaveform, setADSR, setSoundPreset and setEcho leave every field of
\* every voice unchanged: a playing voice keeps what it was started with.
C9_SettersLeaveVoices ==
    [][(arg.kind \in {"setWaveform", "setADSR", "setSoundPreset", "setEcho"} /\ pc' # pc)
          => synth'.voices = synth.voices]_vars

\* setWaveform or setSoundPreset has returned while a voice plays another waveform
C9_Witness ==
    /\ pc = "idle"
    /\ hist.prev.kind \in {"setWaveform", "setSoundPreset"}
    /\ \E i \in Channels :
           synth.voices[i].active /\ synth.voices[i].waveform # synth.waveform

\* voice v carries preset p: its waveform, its echo-send default, and the
\* rates playNote derives from its attack, decay, sustain and release
CarriesPreset(v, p, sr) ==
    LET e   == PresetADSR(p)
        sus == e.sustain * U16
    IN  /\ v.waveform = SOUND_PRESETS[p][1]
        /\ v.enableEcho = PresetEcho(p)
        /\ v.sustainLevelFixed = sus
        /\ v.attackRate = MaxLevel \div AtLeastOne(MsToSamples(e.attack, sr, synth.intOverflow))
        /\ v.decayRate = (IF MaxLevel > sus
                          THEN (MaxLevel - sus) \div AtLeastOne(MsToSamples(e.decay, sr, synth.intOverflow))
                          ELSE 0)
        /\ v.releaseRate = sus \div AtLeastOne(MsToSamples(e.release, sr, synth.intOverflow))

\* C10: after setSoundPreset(P) and then playNote from background code, the
\* voice playNote has started carries P's waveform, rates and echo-send
\* default, also when the sample interrupt runs the sequencer in between.
C10_PresetUsedByNextNote ==
    [][(pc = "pn345" /\ pc' = "idle" /\ hist.prev.kind = "setSoundPreset")
          => CarriesPreset(synth'.voices[loc.voiceIndex], hist.prev.a, synth.sampleRate)]_vars

\* (freq * 2^32) % sr, by the long division of PhaseIncrementOf
PhaseRemainderOf(freq, sr) ==
    LET r1 == ((freq % sr) * 256) % sr
        r2 == (r1 * 256) % sr
        r3 == (r2 * 256) % sr
    IN  (r3 * 256) % sr

\* C11 as stated: at 40000 Hz a voice started at 440 Hz has, after exactly
\* 40000 invocations of the interrupt, its phase accumulator back at 0.
C11_BackAtStart ==
    (hist.ticks = InitSampleRate /\ synth.voices[0].frequency = 440)
        => synth.voices[0].phaseAccumulator = <<0, 0>>

\* C11, amended: after exactly sampleRate invocations the phase accumulator of
\* a voice started at frequency f, and still sounding, is short of its starting value 0 by
\* (f * 2^32) mod sampleRate, which is less than sampleRate (10240 for 440 Hz
\* at 40000 Hz, 0 for 10000 Hz).
C11_ShortByRemainder ==
    (hist.ticks = InitSampleRate /\ synth.voices[0].active)
        => LET v == synth.voices[0]
               r == PhaseRemainderOf(v.frequency, synth.sampleRate)
           IN  v.phaseAccumulator = IF r = 0 THEN <<0, 0>> ELSE <<U16 - 1, U16 - r>>

C11_Witness ==
    /\ hist.ticks = InitSampleRate
    /\ synth.voices[0].active
    /\ synth.voices[0].frequency = 440
    /\ synth.voices[0].phaseAccumulator = <<U16 - 1, U16 - 10240>>

\* round(freq * 2^32 / sr) modulo 2^32: the quotient, plus one when the
\* remainder is at least half the divisor
RoundedIncrementOf(freq, sr) ==
    AddPhase(PhaseIncrementOf(freq, sr),
             <<0, IF 2 * PhaseRemainderOf(freq, sr) >= sr THEN 1 ELSE 0>>)

\* C12: a voice that playNote has started holds phaseIncrement =
\* round(frequency * 2^32 / sampleRate) modulo 2^32, for every frequency.
C12_RoundedIncrement ==
    \A i \in Channels :
        synth.voices[i].active
            => synth.voices[i].phaseIncrement
                   = RoundedIncrementOf(synth.voices[i].frequency, synth.sampleRate)

\* a step of the interrupt
TickStep == pc' = pc /\ calls' = calls /\ <<synth, out, hist>>' # <<synth, out, hist>>

\* C13: a sample in which every voice mixed has frequency 0 is silent: the
\* processed samples sum to 0 and, the echo unit off, the value computed for
\* the output is the centre 128.
C13_ZeroFrequencySilent ==
    [][(/\ TickStep
        /\ IsPlaying(synth)
        /\ \A i \in Channels : synth.voices[i].active => synth.voices[i].frequency = 0)
          => /\ out'.dry = 0
             /\ ~synth.echo.globalEnabled => out'.pwmVal = 128]_vars

\* C14: in every sample with the echo unit on, readIndex is in [0, C), and the
\* write cursor is in [0, C) after every sample, for every delayMs.
C14_EchoIndicesInBounds ==
    /\ out.delayWriteIndex \in 0 .. (out.delayBufferLen - 1)
    /\ out.echoRan => out.readIndex \in 0 .. (out.delayBufferLen - 1)

\* the cursor has wrapped to 0 in a sample whose delay was clamped to the
\* buffer length: the cell read was the last of the buffer
C14_Witness ==
    /\ out.echoRan
    /\ synth.echo.delayMs = U16 - 1
    /\ out.delayWriteIndex = 0
    /\ out.readIndex = out.delayBufferLen - 1

\* C15: a sample with the echo unit off leaves the delay buffer and the write
\* cursor as they were, and its mixed sample is the sum of the voices'
\* processed samples.
C15_EchoOffLeavesBuffer ==
    [][(TickStep /\ ~synth.echo.globalEnabled)
          => /\ out'.delayBuffer = out.delayBuffer
             /\ out'.delayWriteIndex = out.delayWriteIndex
             /\ out'.mixedSample = out'.dry]_vars

\* the echo unit off, a sample has mixed a voice that sends to the echo bus,
\* while the buffer holds an earlier note
C15_Witness ==
    /\ ~synth.echo.globalEnabled
    /\ ~out.echoRan
    /\ out.echoSendSample # 0
    /\ out.delayBuffer # {}

\* C16: after every sample, the PWM drivers are detached and both pins driven
\* low exactly when the sample mixed no voice and the echo unit is off;
\* otherwise the drivers are attached and a sample was written.
C16_PowerDown ==
    [][TickStep
          => LET idle == out'.activeVoices = 0 /\ ~synth.echo.globalEnabled
             IN  /\ idle <=> (~out'.attached /\ out'.low)
                 /\ ~idle => (out'.attached /\ out'.pwmVal # -1)]_vars

\* the first invocation of the interrupt from player M and Synth S evaluates
\* the first note of the list: it is passed, and started if its pitch is not 0
EvaluatesFirstNote(M, S) ==
    \A W \in MusicUpdate([S |-> S, M |-> M, started |-> {}, log |-> <<>>, steps |-> <<>>]) :
        /\ W.M.currentNoteIndex >= 1
        /\ Melodies[M.currentMelody][1].note > 0 => (W.log # <<>> /\ W.log[1] = 0)

\* C17: when play(notes, length, bpm) with length > 0 returns, the sequencer is
\* playing at index 0 with samplesPerTick = sampleRate * 15 / bpm, and the
\* next invocation of the interrupt evaluates the first note.
C17_PlayStartsAtFirstNote ==
    [][(pc = "mp27" /\ pc' = "idle" /\ arg.a.length > 0)
          => /\ mp'.playing
             /\ mp'.currentNoteIndex = 0
             /\ mp'.samplesPerTick = (synth.sampleRate * 15) \div arg.a.bpm
             /\ EvaluatesFirstNote(mp', synth')]_vars

\* C18: when play(song) returns, called again with the song of the play
\* before it, currentNoteIndex, tickCounter, ticksUntilNextStep and playing
\* are as a first play leaves them.
C18_PlayAgainResets ==
    [][(pc = "mp27" /\ pc' = "idle" /\ hist.prev.kind = "play" /\ hist.prev.a = arg.a)
          => /\ mp'.currentNoteIndex = 0
             /\ mp'.tickCounter = mp'.samplesPerTick
             /\ mp'.ticksUntilNextStep = 0
             /\ mp'.playing]_vars

\* the advanceTicks of the notes i .. j - 1 of melody m
RECURSIVE AdvanceBetween(_, _, _)
AdvanceBetween(m, i, j) ==
    IF i >= j THEN 0 ELSE Melodies[m][i + 1].advance + AdvanceBetween(m, i + 1, j)

\* the indices of the notes of melody m that are not rests, in list order
NonRests(m) ==
    LET idx == {i \in 0 .. (Len(Melodies[m]) - 1) : Melodies[m][i + 1].note > 0}
        RECURSIVE Sorted(_)
        Sorted(I) == IF I = {} THEN <<>>
                     ELSE LET lo == CHOOSE i \in I : \A j \in I : i <= j
                          IN  <<lo>> \o Sorted(I \ {lo})
    IN  Sorted(idx)

\* C19: two notes the sequencer has started since play are apart by
\* samplesPerTick times the advanceTicks between them: the notes of a chord
\* start in the same invocation, and the note after a wait of n ticks starts
\* n * samplesPerTick invocations later, not earlier and not later.
C19_ChordTiming ==
    pc = "idle" /\ mp.currentMelody # 0 =>
        LET st == hist.starts
            m  == mp.currentMelody
            nr == NonRests(m)
        IN  /\ \A k \in 1 .. (Len(st) - 1) :
                  st[k + 1][1] = st[k][1]
                                   + mp.samplesPerTick * AdvanceBetween(m, st[k][2], st[k + 1][2])
            /\ (Len(st) >= 1 /\ Len(st) < Len(nr))
                  => hist.ticks < st[Len(st)][1]
                                    + mp.samplesPerTick
                                        * AdvanceBetween(m, st[Len(st)][2], nr[Len(st) + 1])
                     \/ mp.samplesPerTick * AdvanceBetween(m, st[Len(st)][2], nr[Len(st) + 1]) = 0

\* the song is over: not playing, the index at the end of the list, every
\* note that is not a rest started once, in list order
SongOver ==
    /\ ~mp.playing
    /\ mp.currentMelody # 0
    /\ mp.currentNoteIndex = mp.melodyLength
    /\ [k \in 1 .. Len(hist.starts) |-> hist.starts[k][2]] = NonRests(mp.currentMelody)

\* C20: after play, the sequencer starts the notes that are not rests once
\* each, in list order, never one again; and a playing song is eventually over.
C20_SongEnds ==
    /\ [](pc = "idle" /\ mp.currentMelody # 0 =>
             LET nr == NonRests(mp.currentMelody)
             IN  /\ Len(hist.starts) <= Len(nr)
                 /\ \A k \in 1 .. Len(hist.starts) : hist.starts[k][2] = nr[k])
    /\ (mp.playing ~> SongOver)

\* C26: while a song plays, two consecutive sequencer ticks are samplesPerTick
\* invocations of the interrupt apart, and the note after a note with
\* advanceTicks k > 0 is processed k * samplesPerTick invocations after it,
\* not earlier and not later.
C26_TickTiming ==
    pc = "idle" /\ mp.currentMelody # 0 =>
        LET st  == hist.steps
            m   == mp.currentMelody
            adv(k) == Melodies[m][st[k][2] + 1].advance
            listed(k) == st[k][2] < Len(Melodies[m])
        IN  /\ hist.gap >= 0 => hist.gap = mp.samplesPerTick
            /\ \A k \in 1 .. (Len(st) - 1) :
                  (listed(k) /\ adv(k) > 0)
                      => st[k + 1][1] = st[k][1] + adv(k) * mp.samplesPerTick
            /\ (Len(st) >= 1 /\ listed(Len(st)) /\ adv(Len(st)) > 0 /\ mp.playing)
                  => hist.ticks < st[Len(st)][1] + adv(Len(st)) * mp.samplesPerTick

\* C27: an invocation of the interrupt in which the sequencer processes rests
\* only (listed notes of pitch 0) does to the synth what an invocation without
\* the sequencer does: no voice is started and no setting is changed; and it
\* advances the index by the notes processed and leaves ticksUntilNextStep at
\* the advanceTicks of the last of them.
C27_Rests ==
    [][(/\ TickStep
        /\ Len(hist'.steps) > Len(hist.steps)
        /\ mp.currentMelody # 0
        /\ \A k \in (Len(hist.steps) + 1) .. Len(hist'.steps) :
              /\ hist'.steps[k][2] < Len(Melodies[mp.currentMelody])
              /\ Melodies[mp.currentMelody][hist'.steps[k][2] + 1].note = 0)
       => /\ synth' = UpdateVoices(synth)
          /\ hist'.starts = hist.starts
          /\ hist'.begun = {}
          /\ mp'.currentNoteIndex = mp.currentNoteIndex + Len(hist'.steps) - Len(hist.steps)
          /\ mp'.ticksUntilNextStep
                = Melodies[mp.currentMelody][hist'.steps[Len(hist'.steps)][2] + 1].advance]_vars

\* the sequencer has just processed the rest of the third song, alone in its
\* invocation, while the note before it sounds: the wait is the rest's
\* advanceTicks and the index is past it
C27_Witness ==
    /\ pc = "idle"
    /\ mp.currentMelody = 3
    /\ mp.playing
    /\ Len(hist.steps) = 2
    /\ hist.steps[2] = <<hist.ticks, 1>>
    /\ hist.steps[1][1] < hist.ticks
    /\ mp.currentNoteIndex = 2
    /\ mp.ticksUntilNextStep = Melodies[3][2].advance
    /\ \E i \in Channels : synth.voices[i].active

ExactSamples(ms, sr) == ms * (sr \div 1000) + (ms * (sr % 1000)) \div 1000

\* C29: at 40000 Hz a voice that has been started holds the rates derived
\* from the attack, decay and release times and the sustain level in force,
\* the sample counts being the exact ms * sampleRate / 1000, 1 at least:
\* attackRate = (255 << 16) / attackSamples, decayRate = ((255 << 16) -
\* sustainLevelFixed) / decaySamples (0 when the sustain level is 255),
\* releaseRate = sustainLevelFixed / releaseSamples.
C29_EnvelopeRates ==
    \A i \in Channels :
        LET v   == synth.voices[i]
            e   == synth.envelope
            sus == e.sustainLevel * U16
            n(ms) == AtLeastOne(ExactSamples(ms, synth.sampleRate))
        IN  (pc = "idle" /\ v.active) =>
                /\ v.sustainLevelFixed = sus
                /\ v.attackRate = MaxLevel \div n(e.attackMs)
                /\ v.decayRate = (IF e.sustainLevel = 255 THEN 0
                                  ELSE (MaxLevel - sus) \div n(e.decayMs))
                /\ v.releaseRate = sus \div n(e.releaseMs)

\* C30: a voice started by playNote(freq, durationMs) holds samplesUntilRelease
\* = durationMs * sampleRate / 1000, and a voice the sequencer started for a
\* note of duration d holds (d * msPerTick) * sampleRate / 1000, with msPerTick
\* = round(15000 / bpm): the exact values, nothing cut to 16 bits and no
\* product wrapped (checked where the exact value is below 2^31).
C30_DurationCarried ==
    \A i \in Channels :
        (pc = "idle" /\ synth.voices[i].active) =>
            /\ hist.prev.kind = "playNote"
                  => synth.voices[i].samplesUntilRelease
                         = ExactSamples(hist.prev.a.dur, synth.sampleRate)
            /\ (hist.prev.kind = "sequencerNote" /\ hist.prev.a.duration * mp.msPerTick <= 100000)
                  => /\ mp.msPerTick = (2 * 15000 + mp.bpm) \div (2 * mp.bpm)
                     /\ synth.voices[i].samplesUntilRelease
                            = ExactSamples(hist.prev.a.duration * mp.msPerTick, synth.sampleRate)

\* C21: when stop() returns, playing is false and every voice is inactive,
\* wherever the sample interrupt fired inside stop(); and while stop() is the
\* last call that returned and play is not running, an invocation of the
\* interrupt leaves the player as it is and starts no voice.
C21_StopStops ==
    [][/\ (arg.kind = "stop" /\ pc = "sn358" /\ pc' = "idle")
             => ~mp'.playing /\ \A i \in Channels : ~synth'.voices[i].active
       /\ (TickStep /\ hist.prev.kind = "stop" /\ arg.kind # "play")
             => mp' = mp /\ \A i \in Channels : synth'.voices[i].active => synth.voices[i].active]_vars

\* stop() has returned in the middle of a song, while a note of it sounded
C21_Witness ==
    /\ pc = "idle"
    /\ hist.prev.kind = "stop"
    /\ ~mp.playing
    /\ mp.currentNoteIndex > 0
    /\ mp.currentNoteIndex < mp.melodyLength
    /\ \A i \in Channels : ~synth.voices[i].active
    /\ \E i \in Channels : synth.voices[i].frequency # 0

\* the sum of two accumulators modulo 2^32, as <<high half, low half>>
Sum32(a, b) ==
    LET carry == IF a[2] + b[2] >= U16 THEN 1 ELSE 0
    IN  <<(a[1] + b[1] + carry) % U16, (a[2] + b[2]) % U16>>

\* the waveform table of the claim, for a phase index p
WaveTable(p, wave) ==
    CASE wave = "WAVE_SQUARE"   -> {IF p < 128 THEN 255 ELSE 0}
      [] wave = "WAVE_TRIANGLE" -> {IF p < 128 THEN 2 * p ELSE 2 * (255 - p)}
      [] wave = "WAVE_SAWTOOTH" -> {p}
      [] OTHER                  -> 0 .. 255

C23_SineSymmetricMonotonic ==
    /\ (arg.kind = "generateSample" /\ arg.a.wave = "WAVE_SINE")
          => loc.tmp - 128 = 128 - SINE_TABLE[((arg.a.phase + 128) % 256) + 1]
    /\ \A p \in 0 .. 62 : SINE_TABLE[p + 1] <= SINE_TABLE[p + 2]
    /\ \A p \in 64 .. 190 : SINE_TABLE[p + 1] >= SINE_TABLE[p + 2]
    /\ \A p \in 192 .. 254 : SINE_TABLE[p + 1] <= SINE_TABLE[p + 2]

\* C24: encodeFrame writes 28 bytes: START, the 24 bytes of the frame field by
\* field, the CRC of those 24 bytes low byte first, END.  Fed in order to a
\* parser in WAIT_START they make parserFeed return 0 for the first 27 and 1
\* for the 28th, with *out equal to the frame and the parser in WAIT_START.
C24_FrameRoundTrip ==
    [][/\ (bus.used /\ bus'.sends < bus.sends)
             => LET w == bus'.wire
                    f == bus'.frame
                IN  /\ Len(w) = 28
                    /\ w[1] = 170 /\ w[28] = 85
                    /\ w[2] = f.addr /\ w[3] = f.cmd_srv /\ w[4] = f.cmd_dev
                    /\ \A k \in 1 .. 20 : w[4 + k] = f.p[k]
                    /\ w[25] = f.reserved
                    /\ w[26] + 256 * w[27] = CalcCrc(SubSeq(w, 2, 25))
       /\ (bus.used /\ bus'.byte # -1 /\ bus'.clean)
             => /\ bus'.ret = IF bus'.pos = 28 THEN 1 ELSE 0
                /\ bus'.pos = 28 => bus'.out = bus.frame /\ bus'.parser.state = "WAIT_START"]_vars

\* the frame whose CRC bytes are START and END has come through, after another frame
C24_Witness ==
    /\ bus.used
    /\ bus.clean /\ bus.pos = 28 /\ bus.ret = 1
    /\ bus.sends = 0
    /\ bus.frame = RoomFrame(92, 79, 1, Fill(0), 0)
    /\ bus.out = bus.frame
    /\ bus.parser.rxCrc = 21930
    /\ bus.parser.state = "WAIT_START"

\* C25: parserFeed returns 1 only for an END byte received in WAIT_END with the
\* CRC of the 24 buffered bytes equal to the received CRC; a call that returns
\* 0 leaves *out unchanged; and a call in WAIT_END that returns 0 (bad END byte
\* or CRC mismatch) leaves the parser in WAIT_START.
C25_OnlyCheckedFrames ==
    [][(bus.used /\ bus'.byte # -1)
          => /\ bus'.ret \in {0, 1}
             /\ bus'.ret = 1 => /\ bus.parser.state = "WAIT_END"
                                /\ bus'.byte = 85
                                /\ CalcCrc(bus.parser.frameBytes) = bus.parser.rxCrc
             /\ bus'.ret = 0 => bus'.out = bus.out
             /\ (bus.parser.state = "WAIT_END" /\ bus'.ret = 0)
                   => bus'.parser.state = "WAIT_START"]_vars

\* a frame with an altered byte was refused at its END byte, after a frame
\* that was accepted: *out still holds the first frame
C25_Witness ==
    /\ bus.used
    /\ bus.from = "WAIT_END" /\ bus.byte = 85 /\ bus.ret = 0
    /\ bus.parser.state = "WAIT_START"
    /\ CalcCrc(bus.parser.frameBytes) # bus.parser.rxCrc
    /\ bus.sends = 0
    /\ bus.out # bus.frame
    /\ bus.out \in FrameInputs


\* C31: an invocation of the interrupt changes the envelope state of a voice
\* (one the sequencer did not restart in it) only from Attack to Decay, with
\* the level at 255 << 16, from Decay to Sustain, with the level at
\* sustainLevelFixed, from Sustain to Release, or from Release to Idle; and a
\* step of background code changes an envelope state only in playNote (to
\* Attack) and in stopNote (to Idle).
C31_LifecycleOrder ==
    [][\A i \in Channels :
          LET v == synth.voices[i]
              w == synth'.voices[i]
          IN  w.envState # v.envState =>
                  IF TickStep
                  THEN \/ i \in hist'.begun
                       \/ /\ v.envState = "ATTACK" /\ w.envState = "DECAY"
                          /\ w.envLevel = MaxLevel
                       \/ /\ v.envState = "DECAY" /\ w.envState = "SUSTAIN"
                          /\ w.envLevel = w.sustainLevelFixed
                       \/ v.envState = "SUSTAIN" /\ w.envState = "RELEASE"
                       \/ v.envState = "RELEASE" /\ w.envState = "IDLE"
                  ELSE \/ arg.kind = "playNote" /\ w.envState = "ATTACK"
                       \/ arg.kind \in {"stopNote", "stop"} /\ w.envState = "IDLE"]_vars

\* the interrupt has taken one note to its end while another voice, which it
\* has taken through Attack and Decay, sustains
C31_Witness ==
    /\ pc = "idle"
    /\ hist.fin
    /\ \E i \in Channels :
           /\ synth.voices[i].active
           /\ synth.voices[i].envState = "SUSTAIN"
           /\ synth.voices[i].envLevel = synth.voices[i].sustainLevelFixed

\* C32: an invocation of the interrupt that finds a voice in Sustain with
\* samplesUntilRelease > 0 decrements the counter and holds the level, and the
\* voice leaves for Release in the invocation that brings the counter to 0:
\* a voice that entered Sustain with n > 0 stays there for n invocations.
C32_SustainLength ==
    [][\A i \in Channels :
          LET v == synth.voices[i]
              w == synth'.voices[i]
          IN  (/\ TickStep
               /\ i \notin hist'.begun
               /\ v.active /\ v.envState = "SUSTAIN" /\ v.samplesUntilRelease > 0)
                  => /\ w.samplesUntilRelease = v.samplesUntilRelease - 1
                     /\ w.envLevel = v.envLevel
                     /\ (w.envState = "RELEASE") <=> (w.samplesUntilRelease = 0)]_vars

\* C33: an output stage that writes a sample computes it as the mixed sample
\* halved (towards zero), clipped to -128 .. 127 and offset by 128, a value in
\* 0 .. 255; the smoothed value stays in 0 .. 255; and the two duties written
\* are smoothed and 255 - smoothed.
C33_OutputRange ==
    [][(hist'.ticks # hist.ticks /\ out'.pwmVal # -1)
          => LET m    == out'.mixedSample
                 half == IF m >= 0 THEN m \div 2 ELSE -((-m) \div 2)
                 clip == IF half > 127 THEN 127 ELSE IF half < -128 THEN -128 ELSE half
             IN  /\ out'.pwmVal = clip + 128
                 /\ out'.pwmVal \in 0 .. 255
                 /\ out'.smoothed \in 0 .. 255
                 /\ out'.duty = <<out'.smoothed, 255 - out'.smoothed>>
                 /\ out'.duty[1] + out'.duty[2] = 255]_vars

\* four voices and the echo at their loudest: the sample was clipped at the top
C33_Witness ==
    /\ hist.ticks > 0
    /\ out.activeVoices = NUM_CHANNELS
    /\ synth.echo.globalEnabled
    /\ out.mixedSample = 126 * (NUM_CHANNELS + 1)
    /\ out.pwmVal = 255

C35_StartSurvives ==
    [][(arg.kind = "playNote" /\ pc # "idle" /\ pc' = "idle")
          => LET w == synth'.voices[loc.voiceIndex]
             IN  /\ w.active
                 /\ w.envState # "IDLE"
                 /\ w.frequency = arg.a.freq
                 /\ w.baseVolume = arg.a.vol]_vars

\* C36: no double allocation.  When the interrupt fires while a background
\* playNote has selected its voice and has not returned, at least two voices
\* are inactive, and the sequencer starts a note in that invocation, the
\* sequencer's note goes to another voice than the one the background call
\* selected.
C36_NoDoubleAllocation ==
    [][(/\ TickStep
        /\ arg.kind = "playNote"
        /\ pc \in PlayNoteStmtSet
        /\ Cardinality({i \in Channels : ~synth.voices[i].active}) >= 2
        /\ hist'.begun # {})
          => loc.voiceIndex \notin hist'.begun]_vars

\* C37: the sequencer never reads outside the current song.  Every note the
\* sequencer reads in an invocation of the interrupt is at an index strictly
\* less than the length of the note array currentMelody refers to, whatever
\* statement of play() the invocation preempts.
C37_ReadsInsideSong ==
    [][TickStep
          => \A k \in (Len(hist.steps) + 1) .. Len(hist'.steps) :
                hist'.steps[k][2] < Len(Melodies[mp.currentMelody])]_vars

\* an integer quotient rounded toward zero
TruncDiv(a, b) == IF a >= 0 THEN a \div b ELSE -((-a) \div b)

\* the delay in samples: delayMs * sampleRate / 1000 clamped to 1 .. C
DelayOf(S, C) ==
    LET raw == (S.echo.delayMs * S.sampleRate) \div 1000
    IN  IF raw < 1 THEN 1 ELSE IF raw > C THEN C ELSE raw

\* C38: delay-line round trip.  With the echo unit on and delayMs constant,
\* the byte read from the delay buffer in sample t is the byte written in
\* sample t - d (128 when fewer than d samples have been written), d = C
\* included, and the byte written is
\* clip(echoSendSum + (delayed * feedback) / 256, -128, 127) + 128.
C38_DelayRoundTrip ==
    [][hist'.ticks # hist.ticks
          => LET t       == hist'.ticks
                 d       == DelayOf(synth, out.delayBufferLen)
                 read    == ReadCell(out.delayBuffer, out'.readIndex)
                 written == ReadCell(out'.delayBuffer, out.delayWriteIndex)
             IN  /\ t - d < 1 => read = 128
                 /\ t - d \in 1 .. Len(hist.wrote) => read = hist.wrote[t - d]
                 /\ written = Clip8(out'.echoSendSample
                                      + TruncDiv((read - 128) * synth.echo.feedback, 256))
                              + 128]_vars

\* C39: the echo tail dies out.  With the echo unit on, feedback below 255 and
\* no voice sending to the echo bus from some sample on, every cell of the
\* delay buffer eventually holds 128 and keeps it, cells that held a value
\* below 128 too.
C39_EchoTailDiesOut ==
    <>[](out.delayBuffer = {})

\* C40: voice flag consistency.  In every state where no background call is
\* in progress (after construction, after each completed call, after each
\* sample), every voice is active exactly when its envelope state is not Idle.
C40_FlagConsistency ==
    pc = "idle"
        => \A i \in Channels :
              synth.voices[i].active <=> synth.voices[i].envState # "IDLE"
====
